---- MODULE Spec2Model ----
(***************************************************************************)
(* Evaluation of the logical plan of cudf_polars (dsl/ir.py): the          *)
(* recursive evaluation driver IR.evaluate, the CSE cache of               *)
(* Cache.evaluate, and the broadcast rule.                                 *)
(*                                                                         *)
(* A plan is an arena of nodes addressed by identifiers; a node holds the  *)
(* ordered list of its children.  One call of evaluate is one frame of a   *)
(* thread's call stack; an uncaught exception unwinds the stack frame by   *)
(* frame.                                                                  *)
(***************************************************************************)
EXTENDS Integers, Sequences, FiniteSets, TLC

\* ------------------------------------------------------------- bounds
\* Largest number of parents (references to Cache nodes) under the root.
MaxRefs == 3
\* Largest refcount of a Cache node.
MaxRefcount == 2
\* Number of top-level evaluations of one plan object.
MaxRuns == 2
\* Largest number of columns handed to broadcast.
MaxCols == 3
\* Largest column length handed to broadcast.
MaxLen == 3

\* target_length=None of broadcast.
NoTarget == -1

VARIABLES
    plan,      \* the plan object: node identifier -> node
    roots,     \* per thread, the node whose evaluate the caller calls
    cache,     \* the CSECache mapping of the running evaluation: key -> (table, hits)
    stack,     \* per thread, the call stack of evaluate frames (top last)
    raising,   \* per thread, the exception in flight (type "" when none)
    outcome,   \* per thread, what the top-level call gave: a table or an error
    history,   \* per run started: the plan as it was then, and (once the next
               \* run starts) what the run gave
    run,       \* number of top-level evaluations started
    serial,    \* number of DataFrame objects created so far (object identity)
    log,       \* per thread, the calls made during the running evaluation
    timer,     \* the Timer argument: on/off and the records stored
    clock,     \* time.monotonic_ns()
    overlapped,\* whether two threads have been inside Cache.evaluate on one key at once
    bcols,     \* broadcast: the columns argument
    btarget,   \* broadcast: the target_length argument
    bres,      \* broadcast: what the call gave
    fargs,     \* a direct call of one operation: the operation and its arguments
    fres       \* a direct call of one operation: how far it is and what it gave

evalVars == <<plan, roots, cache, stack, raising, outcome, history, run,
              serial, log, timer, clock, overlapped>>
bcastVars == <<bcols, btarget, bres>>
callVars == <<fargs, fres>>
vars == <<plan, roots, cache, stack, raising, outcome, history, run,
          serial, log, timer, clock, overlapped, bcols, btarget, bres,
          fargs, fres>>

\* ------------------------------------------------------------ helpers
Range(s) == {s[i] : i \in DOMAIN s}

RECURSIVE Concat(_)
Concat(ss) == IF ss = <<>> THEN <<>> ELSE Head(ss) \o Concat(Tail(ss))

Min2(a, b) == IF a < b THEN a ELSE b

NoError == [type |-> "", msg |-> ""]
NoTable == [rows |-> <<>>, id |-> 0]

\* ---------------------------------------------------------- broadcast
\* A Column: its name, its data (size = Len(data)) and whether it carries
\* the sortedness flags broadcast sets on a column it builds.
Col(name, data, sorted) == [name |-> name, data |-> data, sorted |-> sorted]

Size(c) == Len(c.data)

\* (mutant) the length-1 column is handed back as it is.
FromScalarKept(c, nrows) == c

\* Column(plc.Column.from_scalar(column.obj_scalar, nrows), is_sorted=YES, ...)
FromScalar(c, nrows) ==
    Col(c.name, [i \in 1..nrows |-> c.data[1]], TRUE)

\* broadcast(*columns, target_length): [ok, cols] or [ok = FALSE, err].
Raised(type, msg) == [ok |-> FALSE, cols |-> <<>>, err |-> [type |-> type, msg |-> msg]]
Returned(cols) == [ok |-> TRUE, cols |-> cols, err |-> NoError]

BroadcastTo(columns, nrows) ==
    [i \in DOMAIN columns |->
        IF Size(columns[i]) # 1 THEN columns[i] ELSE FromScalar(columns[i], nrows)]

broadcast(columns, target_length) ==
    IF Len(columns) = 0 THEN Returned(<<>>)
    ELSE LET lengths == {Size(columns[i]) : i \in DOMAIN columns}
             rest == lengths \ {1}
         IN  IF lengths = {1}
             THEN IF target_length = NoTarget
                  THEN Returned(columns)
                  ELSE Returned(BroadcastTo(columns, target_length))
             ELSE IF Cardinality(rest) # 1
                  THEN Raised("RuntimeError", "Mismatching column lengths")
                  ELSE LET nrows == CHOOSE n \in rest : TRUE
                       IN  IF target_length # NoTarget /\ nrows # target_length
                           THEN Raised("RuntimeError", "Cannot broadcast columns")
                           ELSE Returned(BroadcastTo(columns, nrows))

\* --------------------------------------------------------------- plan
\* Node identifiers.
Root == <<"root", 0>>
Parent(i) == <<"parent", i>>
CacheNode(k) == <<"cache", k>>
Leaf(k) == <<"leaf", k>>
Inner(k) == <<"inner", k>>

Node(kind, children) ==
    [kind |-> kind, children |-> children, key |-> 0, refcount |-> 0,
     rows |-> <<>>, offset |-> 0, length |-> 0, mask |-> <<>>, error |-> ""]

\* Union(schema, zlice=None, *children)
UnionNode(children) == Node("Union", children)
\* Slice(schema, offset, length, df)
SliceNode(offset, length, df) ==
    [Node("Slice", <<df>>) EXCEPT !.offset = offset, !.length = length]
\* Filter(schema, mask, df); the mask expression is a literal column
FilterNode(mask, df) == [Node("Filter", <<df>>) EXCEPT !.mask = mask]
\* Cache(schema, key, refcount, value)
CacheOf(key, refcount, value) ==
    [Node("Cache", <<value>>) EXCEPT !.key = key, !.refcount = refcount]
\* DataFrameScan(schema, df, projection=None, config_options)
ScanNode(rows) == [Node("DataFrameScan", <<>>) EXCEPT !.rows = rows]
\* ErrorNode(schema, error)
ErrorNodeOf(error) == [Node("ErrorNode", <<>>) EXCEPT !.error = error]


\* The plans evaluated: a Union root over n parents (Slice nodes, or one
\* Filter whose mask cannot be broadcast), each over one of two Cache
\* nodes.  Cache 1 wraps a DataFrameScan or an ErrorNode; Cache 2 wraps a
\* DataFrameScan or, when nested, a Filter over Cache 1.
BadMask == <<TRUE, FALSE, TRUE>>

MkPlan(refs, ra, rb, bad, leafErr, nested) ==
    LET n == Len(refs)
        ids == {Root} \cup {Parent(i) : i \in 1..n}
               \cup (IF 2 \in Range(refs)
                     THEN {CacheNode(2), IF nested THEN Inner(2) ELSE Leaf(2)}
                     ELSE {})
               \cup (IF 1 \in Range(refs) \/ (nested /\ 2 \in Range(refs))
                     THEN {CacheNode(1), Leaf(1)} ELSE {})
    IN  [id \in ids |->
          CASE id = Root -> UnionNode([i \in 1..n |-> Parent(i)])
            [] id[1] = "parent" ->
                 IF id[2] = bad
                 THEN FilterNode(BadMask, CacheNode(refs[id[2]]))
                 ELSE SliceNode((id[2] - 1) % 2, 1, CacheNode(refs[id[2]]))
            [] id = CacheNode(1) -> CacheOf(1, ra, Leaf(1))
            [] id = CacheNode(2) ->
                 CacheOf(2, rb, IF nested THEN Inner(2) ELSE Leaf(2))
            [] id = Leaf(1) ->
                 IF leafErr THEN ErrorNodeOf("translation failed")
                 ELSE ScanNode(<<1, 2>>)
            [] id = Leaf(2) -> ScanNode(<<3, 4>>)
            [] id = Inner(2) -> FilterNode(<<FALSE, TRUE>>, CacheNode(1))]

\* A nested plan may also have, as the Filter under Cache 2, one whose mask
\* cannot be broadcast: it fails after Cache 1 below it was evaluated.
Plans ==
    {MkPlan(refs, ra, rb, bad, leafErr, nested) :
        refs \in UNION {[1..n -> {1, 2}] : n \in 1..MaxRefs},
        ra \in 1..MaxRefcount, rb \in 1..MaxRefcount,
        bad \in 0..MaxRefs, leafErr \in BOOLEAN, nested \in BOOLEAN}
    \cup
    {[p EXCEPT ![Inner(2)] = FilterNode(BadMask, CacheNode(1))] :
        p \in {q \in {MkPlan(refs, ra, rb, 0, FALSE, TRUE) :
                        refs \in UNION {[1..n -> {1, 2}] : n \in 1..MaxRefs},
                        ra \in 1..MaxRefcount, rb \in 1..MaxRefcount} :
                  Inner(2) \in DOMAIN q}}

\* -------------------------------------------------------- do_evaluate
\* DataFrame.slice((offset, length)) for a non-negative offset.
SliceRows(rows, offset, length) ==
    SubSeq(rows, offset + 1, Min2(Len(rows), offset + length))

\* DataFrame.filter(mask): the rows whose mask entry is true.
RECURSIVE FilterRows(_, _)
FilterRows(rows, mask) ==
    IF rows = <<>> THEN <<>>
    ELSE (IF Head(mask) THEN <<Head(rows)>> ELSE <<>>)
         \o FilterRows(Tail(rows), Tail(mask))

\* Filter.do_evaluate(mask_expr, df)
FilterDoEvaluate(mask, rows) ==
    LET b == broadcast(<<Col("mask", mask, FALSE)>>, Len(rows))
    IN  IF b.ok
        THEN [ok |-> TRUE, rows |-> FilterRows(rows, b.cols[1].data), err |-> NoError]
        ELSE [ok |-> FALSE, rows |-> <<>>, err |-> b.err]

\* (mutant) a DataFrameScan hands its rows out once: a later evaluation
\* finds the source consumed.
DoEvaluateConsuming(nd, dfs) ==
    CASE nd.kind = "DataFrameScan" ->
           [ok |-> TRUE, rows |-> IF run > 1 THEN <<>> ELSE nd.rows, err |-> NoError]
      [] nd.kind = "Union" ->
           [ok |-> TRUE, rows |-> Concat([i \in DOMAIN dfs |-> dfs[i].rows]),
            err |-> NoError]
      [] nd.kind = "Slice" ->
           [ok |-> TRUE, rows |-> SliceRows(dfs[1].rows, nd.offset, nd.length),
            err |-> NoError]
      [] nd.kind = "Filter" -> FilterDoEvaluate(nd.mask, dfs[1].rows)
      [] nd.kind = "ErrorNode" ->
           [ok |-> FALSE, rows |-> <<>>,
            err |-> [type |-> "AttributeError", msg |-> "do_evaluate"]]

\* self.do_evaluate(*self._non_child_args, *children) of node nd with the
\* children's tables dfs: the rows of the DataFrame it returns, or the
\* exception it raises.  ErrorNode defines no do_evaluate and sets no
\* _non_child_args, so the attribute lookup raises AttributeError.
DoEvaluate(nd, dfs) ==
    CASE nd.kind = "DataFrameScan" -> [ok |-> TRUE, rows |-> nd.rows, err |-> NoError]
      [] nd.kind = "Union" ->
           [ok |-> TRUE, rows |-> Concat([i \in DOMAIN dfs |-> dfs[i].rows]),
            err |-> NoError]
      [] nd.kind = "Slice" ->
           [ok |-> TRUE, rows |-> SliceRows(dfs[1].rows, nd.offset, nd.length),
            err |-> NoError]
      [] nd.kind = "Filter" -> FilterDoEvaluate(nd.mask, dfs[1].rows)
      [] nd.kind = "ErrorNode" ->
           [ok |-> FALSE, rows |-> <<>>,
            err |-> [type |-> "AttributeError", msg |-> "do_evaluate"]]

\* ------------------------------------------------------------- frames
Threads == DOMAIN roots

EmptyCache == [k \in {} |-> [table |-> NoTable, hits |-> 0]]

\* One call of evaluate.  A frame of Cache.evaluate that missed remembers
\* the mapping as its lookup found it (before), which the code does not
\* keep: nothing reads it but the properties.
Frame(p, n) ==
    [node |-> n, pc |-> IF p[n].kind = "Cache" THEN "try" ELSE "children",
     results |-> <<>>, result |-> NoTable, hits |-> 0, before |-> EmptyCache]

Top(t) == stack[t][Len(stack[t])]
Below(t) == SubSeq(stack[t], 1, Len(stack[t]) - 1)
Running(t) == stack[t] # <<>> /\ raising[t] = NoError
SetTop(t, f) == [stack EXCEPT ![t] = [@ EXCEPT ![Len(@)] = f]]

\* One entry of a thread's log: what happened, in the call of which node,
\* at which depth of the call stack that call's frame is, the identity of
\* the table returned (ret), the identities of the tables passed to
\* do_evaluate (do), the exception raised (raise).
Entry(ev, n, id, args, err) ==
    [ev |-> ev, node |-> n, depth |-> 0, id |-> id, args |-> args, err |-> err]
Event(ev, n) == Entry(ev, n, 0, <<>>, NoError)
Ret(n, df) == Entry("ret", n, df.id, <<>>, NoError)
Do(n, dfs) == Entry("do", n, 0, [i \in DOMAIN dfs |-> dfs[i].id], NoError)
Raise(n, err) == Entry("raise", n, 0, <<>>, err)
At(d, evs) == [i \in DOMAIN evs |-> [evs[i] EXCEPT !.depth = d]]
\* Entries of the running frame, and the entry of a call it makes.
Logged(t, evs) == [log EXCEPT ![t] = @ \o At(Len(stack[t]), evs)]
LoggedCall(t, n) == [log EXCEPT ![t] = @ \o At(Len(stack[t]) + 1, <<Event("call", n)>>)]

\* The callee's frame is popped and its value handed to the caller: the
\* next element of the caller's list of evaluated children, or the result
\* of the top-level call.
ReturnTo(t, df) ==
    IF Below(t) = <<>>
    THEN /\ stack' = [stack EXCEPT ![t] = <<>>]
         /\ outcome' = [outcome EXCEPT ![t] =
                          [status |-> "ok", table |-> df, error |-> NoError]]
    ELSE /\ stack' = [stack EXCEPT ![t] =
                        [Below(t) EXCEPT ![Len(Below(t))].results = Append(@, df)]]
         /\ UNCHANGED outcome

KeyError == [type |-> "KeyError", msg |-> "key"]

\* (mutant) the entry is removed one hit early.
LastHitEarly(hits, refcount) == hits + 1 = refcount

\* Cache.evaluate: if hits == self.refcount
LastHit(hits, refcount) == hits = refcount

\* IR.evaluate: the list comprehension over self.children has finished
\* when it holds one table per child; until then the next child is the
\* one after those evaluated.
\* (mutant) the children are evaluated last to first.
NextChildReversed(nd, results) == nd.children[Len(nd.children) - Len(results)]

ChildrenDone(nd, results) == Len(results) = Len(nd.children)
NextChild(nd, results) == nd.children[Len(results) + 1]

\* (mutant) the assignment to the mapping is lost.
CachePutLost(c, key, df, hits) == c

\* (mutant) a copy of the table is stored, not the table.
CachePutCopy(c, key, df, hits) ==
    [k \in DOMAIN c \cup {key} |->
        IF k = key THEN [table |-> [df EXCEPT !.id = 0], hits |-> hits] ELSE c[k]]

CachePut(c, key, df, hits) ==
    [k \in DOMAIN c \cup {key} |->
        IF k = key THEN [table |-> df, hits |-> hits] ELSE c[k]]
CacheDel(c, key) == [k \in DOMAIN c \ {key} |-> c[k]]


\* (mutant) the record is not stored.
TimerStoreLost(tm, start, end, name) == tm

\* timer.store(start, end, type(self).__name__)
TimerStore(tm, start, end, name) ==
    [tm EXCEPT !.records = Append(@, [start |-> start, end |-> end, name |-> name])]

\* ------------------------------------------------------------ actions
Idle == \A t \in Threads : stack[t] = <<>> /\ raising[t] = NoError

Pending == [status |-> "pending", table |-> NoTable, error |-> NoError]

\* The caller: ir.evaluate(cache={}, timer=timer) on every thread's node,
\* all against the one fresh mapping.
TopLevel ==
    /\ Idle
    /\ run < MaxRuns
    /\ run' = run + 1
    /\ cache' = EmptyCache
    /\ stack' = [t \in Threads |-> <<Frame(plan, roots[t])>>]
    /\ outcome' = [t \in Threads |-> Pending]
    /\ history' = Append([r \in DOMAIN history |->
                              IF r = run THEN [history[r] EXCEPT !.outcome = outcome]
                              ELSE history[r]],
                          [plan |-> plan, outcome |-> [t \in Threads |-> Pending]])
    /\ log' = [t \in Threads |-> At(1, <<Event("call", roots[t])>>)]
    /\ timer' = [timer EXCEPT !.records = <<>>]
    /\ UNCHANGED <<plan, roots, raising, serial, clock>>

\* IR.evaluate, the list comprehension: child.evaluate(cache=cache,
\* timer=timer) for the next child in self.children.
IRCallChild(t) ==
    /\ Running(t)
    /\ Top(t).pc = "children"
    /\ ~ChildrenDone(plan[Top(t).node], Top(t).results)
    /\ LET child == NextChild(plan[Top(t).node], Top(t).results)
       IN  /\ stack' = [stack EXCEPT ![t] = Append(@, Frame(plan, child))]
           /\ log' = LoggedCall(t, child)
    /\ UNCHANGED <<plan, roots, cache, raising, outcome, history, run,
                   serial, timer, clock>>

\* IR.evaluate after the list comprehension: do_evaluate on the children's
\* tables, timed when a timer is given, and the return of its result.
IRDoEvaluate(t) ==
    /\ Running(t)
    /\ Top(t).pc = "children"
    /\ ChildrenDone(plan[Top(t).node], Top(t).results)
    /\ LET n == Top(t).node
           r == DoEvaluate(plan[n], Top(t).results)
           df == [rows |-> r.rows, id |-> serial + 1]
       IN  IF r.ok
           THEN /\ serial' = serial + 1
                /\ ReturnTo(t, df)
                /\ log' = Logged(t, <<Do(n, Top(t).results), Ret(n, df)>>)
                /\ IF timer.on
                   THEN /\ timer' = TimerStore(timer, clock + 1, clock + 2, plan[n].kind)
                        /\ clock' = clock + 2
                   ELSE UNCHANGED <<timer, clock>>
                /\ UNCHANGED raising
           ELSE /\ raising' = [raising EXCEPT ![t] = r.err]
                /\ log' = Logged(t, <<Do(n, Top(t).results), Raise(n, r.err)>>)
                /\ clock' = IF timer.on THEN clock + 1 ELSE clock
                /\ UNCHANGED <<stack, outcome, serial, timer>>
    /\ UNCHANGED <<plan, roots, cache, history, run>>

\* Cache.evaluate: try: (result, hits) = cache[self.key]
CacheLookup(t) ==
    /\ Running(t)
    /\ Top(t).pc = "try"
    /\ LET n == Top(t).node
           key == plan[n].key
       IN  IF key \in DOMAIN cache
           THEN /\ stack' = SetTop(t, [Top(t) EXCEPT !.pc = "else",
                                         !.result = cache[key].table,
                                         !.hits = cache[key].hits])
                /\ log' = Logged(t, <<Event("hit", n)>>)
           ELSE /\ stack' = SetTop(t, [Top(t) EXCEPT !.pc = "except", !.before = cache])
                /\ log' = Logged(t, <<Event("miss", n)>>)
    /\ UNCHANGED <<plan, roots, cache, raising, outcome, history, run,
                   serial, timer, clock>>

\* Cache.evaluate: except KeyError: (value,) = self.children;
\* value.evaluate(cache=cache, timer=timer)
CacheMiss(t) ==
    /\ Running(t)
    /\ Top(t).pc = "except"
    /\ LET child == plan[Top(t).node].children[1]
       IN  /\ stack' = [stack EXCEPT ![t] =
                          Append([@ EXCEPT ![Len(@)].pc = "store"],
                                 Frame(plan, child))]
           /\ log' = LoggedCall(t, child)
    /\ UNCHANGED <<plan, roots, cache, raising, outcome, history, run,
                   serial, timer, clock>>

\* Cache.evaluate: cache[self.key] = (result, 0); return result
CacheStore(t) ==
    /\ Running(t)
    /\ Top(t).pc = "store"
    /\ Len(Top(t).results) = 1
    /\ LET n == Top(t).node
           df == Top(t).results[1]
       IN  /\ cache' = CachePut(cache, plan[n].key, df, 0)
           /\ ReturnTo(t, df)
           /\ log' = Logged(t, <<Ret(n, df)>>)
    /\ UNCHANGED <<plan, roots, raising, history, run, serial, timer, clock>>

\* Cache.evaluate: else: hits += 1; del cache[self.key] when hits ==
\* self.refcount, cache[self.key] = (result, hits) otherwise; return result.
\* del of a key that is no longer in the mapping raises KeyError.
CacheHit(t) ==
    /\ Running(t)
    /\ Top(t).pc = "else"
    /\ LET n == Top(t).node
           key == plan[n].key
           hits == Top(t).hits + 1
       IN  IF LastHit(hits, plan[n].refcount) /\ key \notin DOMAIN cache
           THEN /\ raising' = [raising EXCEPT ![t] = KeyError]
                /\ log' = Logged(t, <<Raise(n, KeyError)>>)
                /\ UNCHANGED <<cache, stack, outcome>>
           ELSE /\ cache' = IF LastHit(hits, plan[n].refcount)
                            THEN CacheDel(cache, key)
                            ELSE CachePut(cache, key, Top(t).result, hits)
                /\ ReturnTo(t, Top(t).result)
                /\ log' = Logged(t, <<Ret(n, Top(t).result)>>)
                /\ UNCHANGED raising
    /\ UNCHANGED <<plan, roots, history, run, serial, timer, clock>>

\* (mutant) the try statement of Cache.evaluate encloses the evaluation of
\* the child and its handler catches every exception.
HandlesChild(f, err) == f.pc \in {"try", "store"}

\* Whether the frame is inside a try statement with a handler for the
\* exception: the only one is Cache.evaluate's try around the lookup.
Handles(f, err) == f.pc = "try" /\ err.type = "KeyError"

\* An exception leaves the frame of the call it is in: a frame without a
\* handler is popped; out of the last frame it reaches the caller.
Unwind(t) ==
    /\ stack[t] # <<>>
    /\ raising[t] # NoError
    /\ IF Handles(Top(t), raising[t])
       THEN /\ stack' = SetTop(t, [Top(t) EXCEPT !.pc = "except"])
            /\ raising' = [raising EXCEPT ![t] = NoError]
            /\ UNCHANGED <<outcome, log>>
       ELSE /\ stack' = [stack EXCEPT ![t] = Below(t)]
            /\ log' = Logged(t, <<Event("unwind", Top(t).node)>>)
            /\ IF Below(t) = <<>>
               THEN /\ outcome' = [outcome EXCEPT ![t] =
                          [status |-> "error", table |-> NoTable,
                           error |-> raising[t]]]
                    /\ raising' = [raising EXCEPT ![t] = NoError]
               ELSE UNCHANGED <<outcome, raising>>
    /\ UNCHANGED <<plan, roots, cache, history, run, serial, timer, clock>>

BroadcastIdle ==
    /\ bcols = <<>>
    /\ btarget = NoTarget
    /\ bres = [called |-> FALSE, ok |-> TRUE, cols |-> <<>>, err |-> NoError]

\* No operation is called directly.
CallIdle ==
    /\ fargs = [fn |-> ""]
    /\ fres = [pc |-> "idle"]

EvalInit(rs, timers, runs) ==
    /\ roots = rs
    /\ cache = EmptyCache
    /\ stack = [t \in DOMAIN rs |-> <<>>]
    /\ raising = [t \in DOMAIN rs |-> NoError]
    /\ outcome = [t \in DOMAIN rs |-> Pending]
    /\ history = <<>>
    /\ run = MaxRuns - runs
    /\ serial = 0
    /\ log = [t \in DOMAIN rs |-> <<>>]
    /\ timer \in {[on |-> b, records |-> <<>>] : b \in timers}
    /\ clock = 0
    /\ overlapped = FALSE

\* One thread evaluates the plan from its root: the synchronous driver.
Init ==
    /\ plan \in Plans
    /\ EvalInit(<<Root>>, BOOLEAN, MaxRuns)
    /\ BroadcastIdle
    /\ CallIdle

\* The keys on which a thread is inside Cache.evaluate.
KeysIn(st) ==
    {plan[st[i].node].key : i \in {j \in DOMAIN st : plan[st[j].node].kind = "Cache"}}

Overlap(stk) ==
    \E t \in DOMAIN stk : \E u \in DOMAIN stk :
        t # u /\ KeysIn(stk[t]) \cap KeysIn(stk[u]) # {}

Track == overlapped' = (overlapped \/ Overlap(stack'))

Next ==
    \/ TopLevel /\ Track /\ UNCHANGED <<bcastVars, callVars>>
    \/ \E t \in Threads : IRCallChild(t) /\ Track /\ UNCHANGED <<bcastVars, callVars>>
    \/ \E t \in Threads : IRDoEvaluate(t) /\ Track /\ UNCHANGED <<bcastVars, callVars>>
    \/ \E t \in Threads : CacheLookup(t) /\ Track /\ UNCHANGED <<bcastVars, callVars>>
    \/ \E t \in Threads : CacheMiss(t) /\ Track /\ UNCHANGED <<bcastVars, callVars>>
    \/ \E t \in Threads : CacheStore(t) /\ Track /\ UNCHANGED <<bcastVars, callVars>>
    \/ \E t \in Threads : CacheHit(t) /\ Track /\ UNCHANGED <<bcastVars, callVars>>
    \/ \E t \in Threads : Unwind(t) /\ Track /\ UNCHANGED <<bcastVars, callVars>>

Spec == Init /\ [][Next]_vars

\* Two threads evaluate subtrees of one plan against one mapping, their
\* steps interleaved (Cache.evaluate takes no lock): one evaluates the
\* Union of the first two parents, the other the third parent.  No timer
\* is passed, and the mapping serves this one evaluation.
ConcPlans ==
    {[p EXCEPT ![Root] = UnionNode(<<Parent(1), Parent(2)>>)] :
        p \in {MkPlan(refs, ra, rb, 0, leafErr, nested) :
                  refs \in [1..3 -> {1, 2}],
                  ra \in 1..MaxRefcount, rb \in 1..MaxRefcount,
                  leafErr \in BOOLEAN, nested \in BOOLEAN}}

InitConc ==
    /\ plan \in ConcPlans
    /\ EvalInit(<<Root, Parent(3)>>, {FALSE}, 1)
    /\ BroadcastIdle
    /\ CallIdle

SpecConc == InitConc /\ [][Next]_vars

\* ------------------------------------------------ broadcast, as called
ColNames == <<"a", "b", "c", "d", "e", "f">>

\* Column i of a call, of the given length: distinct values per column.
InputCol(i, len) == Col(ColNames[i], [j \in 1..len |-> 10 * i + j], FALSE)

EvalIdle ==
    /\ plan = MkPlan(<<1>>, 1, 1, 0, FALSE, FALSE)
    /\ roots = <<>>
    /\ cache = EmptyCache
    /\ stack = <<>>
    /\ raising = <<>>
    /\ outcome = <<>>
    /\ history = <<>>
    /\ run = 0
    /\ serial = 0
    /\ log = <<>>
    /\ timer = [on |-> FALSE, records |-> <<>>]
    /\ clock = 0
    /\ overlapped = FALSE

InitBroadcast ==
    /\ EvalIdle
    /\ \E n \in 0..MaxCols : \E lens \in [1..n -> 0..MaxLen] :
          bcols = [i \in 1..n |-> InputCol(i, lens[i])]
    /\ btarget \in {NoTarget} \cup (0..MaxLen)
    /\ bres = [called |-> FALSE, ok |-> TRUE, cols |-> <<>>, err |-> NoError]
    /\ CallIdle

\* broadcast(*bcols, target_length=btarget) returns a list of columns.
BroadcastReturn ==
    /\ ~bres.called
    /\ LET r == broadcast(bcols, btarget)
       IN  /\ r.ok
           /\ bres' = [called |-> TRUE, ok |-> TRUE, cols |-> r.cols, err |-> NoError]
    /\ UNCHANGED <<bcols, btarget>>
    /\ UNCHANGED <<evalVars, callVars>>

\* broadcast(*bcols, target_length=btarget) raises RuntimeError.
BroadcastRaise ==
    /\ ~bres.called
    /\ LET r == broadcast(bcols, btarget)
       IN  /\ ~r.ok
           /\ bres' = [called |-> TRUE, ok |-> FALSE, cols |-> <<>>, err |-> r.err]
    /\ UNCHANGED <<bcols, btarget>>
    /\ UNCHANGED <<evalVars, callVars>>

NextBroadcast == BroadcastReturn \/ BroadcastRaise

SpecBroadcast == InitBroadcast /\ [][NextBroadcast]_vars


\* ============================================================ claims
\* What the logs of the running (or last) evaluation say.
Occ(ev, n) ==
    {x \in UNION {{t} \X DOMAIN log[t] : t \in Threads} :
        log[x[1]][x[2]].ev = ev /\ log[x[1]][x[2]].node = n}
Calls(n) == Cardinality(Occ("call", n))
Misses(n) == Cardinality(Occ("miss", n))
Hits(n) == Cardinality(Occ("hit", n))

CacheNodes == {n \in DOMAIN plan : plan[n].kind = "Cache"}
Parents(c) == {n \in DOMAIN plan : c \in Range(plan[n].children)}
Child(c) == plan[c].children[1]

\* A top-level evaluation has ended, by a return or by an exception.
Finished == run >= 1 /\ Idle
\* It has ended and every top-level call returned a table.
Completed == Finished /\ \A t \in Threads : outcome[t].status = "ok"

SetMax(S) == CHOOSE x \in S : \A y \in S : y <= x
SetMin(S) == CHOOSE x \in S : \A y \in S : x <= y

\* ---------------------------------------------------------------- C1
\* C1: when a Cache node of refcount R >= 1 has exactly R parents and each
\* of them is evaluated once, the wrapped child is evaluated at most once
\* at any moment of the evaluation and exactly once when it has ended.
C1_ChildEvaluatedOnce ==
    \A c \in CacheNodes :
        (/\ plan[c].refcount >= 1
         /\ Cardinality(Parents(c)) = plan[c].refcount
         /\ \A q \in Parents(c) : Calls(q) <= 1)
        => /\ Calls(Child(c)) <= 1
           /\ (Finished /\ \A q \in Parents(c) : Calls(q) = 1)
                 => Calls(Child(c)) = 1

C1_Witness ==
    /\ Completed
    /\ \E c \in CacheNodes :
          /\ plan[c].refcount >= 2
          /\ Cardinality(Parents(c)) = plan[c].refcount
          /\ \A q \in Parents(c) : Calls(q) = 1
          /\ Calls(c) = plan[c].refcount
          /\ Calls(Child(c)) = 1

\* ---------------------------------------------------------------- C2
\* C2: a visit that finds the key in the mapping (a hit) makes no call: its
\* next step is its own return, and the table it returns is the table
\* returned by the latest earlier visit of that key that missed.
C2_HitReturnsStoredTable ==
    \A t \in Threads : \A i \in DOMAIN log[t] :
        (log[t][i].ev = "hit" /\ i < Len(log[t])) =>
            LET L == log[t]
                k == plan[L[i].node].key
                ms == {j \in 1..(i - 1) :
                         L[j].ev = "miss" /\ plan[L[j].node].key = k}
            IN  /\ L[i + 1].ev = "ret"
                /\ L[i + 1].node = L[i].node
                /\ ms # {}
                /\ LET m == SetMax(ms)
                       rs == {j \in (m + 1)..(i - 1) :
                                L[j].ev = "ret" /\ L[j].node = L[m].node}
                   IN  rs # {} /\ L[i + 1].id = L[SetMin(rs)].id

\* Some key was hit twice, and both visits have returned.
C2_Witness ==
    \E t \in Threads : \E i \in DOMAIN log[t] : \E j \in DOMAIN log[t] :
        /\ i < j /\ j < Len(log[t])
        /\ log[t][i].ev = "hit" /\ log[t][j].ev = "hit"
        /\ log[t][i].node = log[t][j].node
        /\ log[t][j + 1].ev = "ret"
        /\ log[t][j + 1].id # 0

\* ---------------------------------------------------------------- C3
\* C3: the only steps that change the mapping are the return of a visit
\* that missed, which adds (result, 0) under the node's key, and a hit on
\* an entry (t, h), which removes the entry when h + 1 is the refcount and
\* replaces it by (t, h + 1) otherwise; a new top-level evaluation starts
\* from an empty mapping.
SameExcept(K) == \A k \in (DOMAIN cache \cup DOMAIN cache') \ {K} :
                    k \in DOMAIN cache /\ k \in DOMAIN cache' /\ cache'[k] = cache[k]

EntryProtocol(t) ==
    LET f == Top(t)
        nd == plan[f.node]
        K == nd.key
    IN  IF nd.kind = "Cache" /\ raising[t] = NoError /\ f.pc = "store"
           /\ Len(f.results) = 1
        THEN /\ K \in DOMAIN cache'
             /\ cache'[K] = [table |-> f.results[1], hits |-> 0]
             /\ SameExcept(K)
        ELSE IF nd.kind = "Cache" /\ raising[t] = NoError /\ f.pc = "else"
        THEN /\ K \in DOMAIN cache
             /\ SameExcept(K)
             /\ IF cache[K].hits + 1 = nd.refcount
                THEN K \notin DOMAIN cache'
                ELSE /\ K \in DOMAIN cache'
                     /\ cache'[K] = [table |-> cache[K].table,
                                     hits |-> cache[K].hits + 1]
        ELSE cache' = cache

C3_EntryProtocol ==
    [][IF run' # run
       THEN cache' = EmptyCache
       ELSE \A t \in Threads :
               (stack'[t] # stack[t] \/ raising'[t] # raising[t])
               => EntryProtocol(t)]_vars

\* An entry has been replaced by a hit and another removed by its last hit.
C3_Witness ==
    \E c \in CacheNodes : \E d \in CacheNodes :
        /\ Hits(c) >= 1 /\ Misses(c) = 1 /\ plan[c].key \notin DOMAIN cache
        /\ plan[d].key \in DOMAIN cache /\ cache[plan[d].key].hits >= 1

\* ---------------------------------------------------------------- C4
\* C4 as stated: after a complete evaluation in which every Cache node of
\* refcount R >= 1 was reached through exactly R references, the mapping
\* holds no entry.
C4_NoEntryAfterRReferences ==
    (/\ Completed
     /\ \A c \in CacheNodes : plan[c].refcount >= 1 /\ Calls(c) = plan[c].refcount)
    => DOMAIN cache = {}

\* C4 amended: after a complete evaluation, a Cache node of refcount R >= 1
\* reached through exactly R + 1 references (one miss, R hits) has no entry
\* in the mapping; one reached through exactly R references still has its
\* entry, with hit count R - 1.
C4_NoEntryAfterRHits ==
    \A c \in CacheNodes :
        (Completed /\ plan[c].refcount >= 1) =>
            /\ Calls(c) = plan[c].refcount + 1
                  => plan[c].key \notin DOMAIN cache
            /\ Calls(c) = plan[c].refcount
                  => /\ plan[c].key \in DOMAIN cache
                     /\ cache[plan[c].key].hits = plan[c].refcount - 1

C4_Witness ==
    /\ Completed
    /\ \E c \in CacheNodes :
          /\ plan[c].refcount >= 2
          /\ Calls(c) = plan[c].refcount + 1
          /\ Hits(c) = plan[c].refcount
          /\ plan[c].key \notin DOMAIN cache


\* ---------------------------------------------------------------- C5
\* No call has raised in the running (or last) evaluation.
NoFailure == \A t \in Threads : \A i \in DOMAIN log[t] : log[t][i].ev # "raise"

\* What the claim promises for a Cache node reached at most R + 1 times
\* when no call fails: one visit misses (the child is evaluated once), and
\* at the end the hit count is one less than the number of visits, the
\* entry being removed by the R-th hit.
OneMissNoLostHit(c) ==
    (NoFailure /\ plan[c].refcount >= 1 /\ Calls(c) <= plan[c].refcount + 1)
    => /\ Misses(c) <= 1
       /\ Calls(Child(c)) <= 1
       /\ Finished =>
            /\ Calls(c) = plan[c].refcount + 1 => plan[c].key \notin DOMAIN cache
            /\ Calls(c) \in 1..plan[c].refcount
                  => /\ plan[c].key \in DOMAIN cache
                     /\ cache[plan[c].key].hits = Calls(c) - 1

IsExit(e) == e.ev \in {"ret", "unwind"}

\* The entry at which the frame of the call at entry j leaves the stack, 0
\* while it is on it.
FrameEnd(L, j) ==
    LET es == {e \in (j + 1)..Len(L) : L[e].depth = L[j].depth /\ IsExit(L[e])}
    IN  IF es = {} THEN 0 ELSE SetMin(es)

\* The m-th smallest element of a set of numbers.
Nth(S, m) == CHOOSE x \in S : Cardinality({y \in S : y < x}) = m - 1

\* The entries of the frame of the call at entry j, and the calls it made.
FrameSpan(L, j) == (j + 1)..(IF FrameEnd(L, j) = 0 THEN Len(L) ELSE FrameEnd(L, j))
OwnDo(L, j) == {i \in FrameSpan(L, j) : L[i].depth = L[j].depth /\ L[i].ev = "do"}
ChildCalls(L, j) ==
    {k \in FrameSpan(L, j) : L[k].depth = L[j].depth + 1 /\ L[k].ev = "call"}

PostOrderCall(L, j) ==
    LET nd == plan[L[j].node]
        kids == ChildCalls(L, j)
    IN  /\ Cardinality(OwnDo(L, j)) <= 1
        /\ (FrameEnd(L, j) # 0 /\ L[FrameEnd(L, j)].ev = "ret")
              => Cardinality(OwnDo(L, j)) = 1
        /\ \A i \in OwnDo(L, j) :
              /\ \A k \in kids : k < i
              /\ Cardinality(kids) = Len(nd.children)
              /\ Len(L[i].args) = Len(nd.children)
              /\ \A m \in 1..Len(nd.children) :
                    LET k == Nth(kids, m)
                    IN  /\ L[k].node = nd.children[m]
                        /\ FrameEnd(L, k) # 0
                        /\ FrameEnd(L, k) < i
                        /\ L[FrameEnd(L, k)].ev = "ret"
                        /\ L[i].args[m] = L[FrameEnd(L, k)].id

\* C6: in every call of evaluate on a node that is not a Cache, do_evaluate
\* is called at most once, exactly once when the call returns, after the
\* calls of evaluate on all the children, made in their listed order, have
\* returned, and with their tables in that order.
C6_PostOrder ==
    \A t \in Threads : \A j \in DOMAIN log[t] :
        (log[t][j].ev = "call" /\ plan[log[t][j].node].kind # "Cache")
        => PostOrderCall(log[t], j)

\* A node with three children has returned.
C6_Witness ==
    \E t \in Threads : \E j \in DOMAIN log[t] :
        /\ log[t][j].ev = "call"
        /\ Len(plan[log[t][j].node].children) >= 3
        /\ FrameEnd(log[t], j) # 0
        /\ log[t][FrameEnd(log[t], j)].ev = "ret"

\* ---------------------------------------------------------------- C7
\* C7: once a call has raised, the thread makes no call, runs no
\* do_evaluate, returns from no frame and looks no key up: it only leaves
\* its frames, innermost first, with that exception in flight, and the
\* top-level call ends with that exception and without a table.
C7_FailurePropagates ==
    \A t \in Threads :
        /\ \A i \in DOMAIN log[t] :
              log[t][i].ev = "raise" =>
                 /\ \A j \in (i + 1)..Len(log[t]) :
                       /\ log[t][j].ev = "unwind"
                       /\ log[t][j].depth = log[t][i].depth - (j - i - 1)
                 /\ Len(stack[t]) = log[t][i].depth - (Len(log[t]) - i)
                 /\ stack[t] # <<>> => raising[t] = log[t][i].err
                 /\ stack[t] = <<>> =>
                       outcome[t] = [status |-> "error", table |-> NoTable,
                                     error |-> log[t][i].err]
        /\ outcome[t].status = "error" =>
              \E i \in DOMAIN log[t] : log[t][i].ev = "raise"

\* The child of a Cache node failed below the first of several parents: the
\* evaluation ended with the error and the second parent was never called.
C7_Witness ==
    /\ Finished
    /\ Parent(2) \in DOMAIN plan /\ Calls(Parent(2)) = 0
    /\ \E t \in Threads : \E i \in DOMAIN log[t] :
          /\ log[t][i].ev = "raise"
          /\ log[t][i].depth >= 4
          /\ outcome[t].status = "error"

\* ---------------------------------------------------------------- C8
\* C8: the error of an evaluation that failed in an ErrorNode carries the
\* message stored in the ErrorNode.
C8_ErrorNodeMessage ==
    \A t \in Threads : \A i \in DOMAIN log[t] :
        (/\ log[t][i].ev = "raise"
         /\ plan[log[t][i].node].kind = "ErrorNode"
         /\ outcome[t].status = "error")
        => outcome[t].error.msg = plan[log[t][i].node].error

\* ---------------------------------------------------------------- C9
SameOutcome(a, b) ==
    /\ a.status = b.status
    /\ a.table.rows = b.table.rows
    /\ a.error = b.error

C10_Broadcast ==
    bres.called =>
        LET lens == {Len(bcols[i].data) : i \in DOMAIN bcols}
            rest == lens \ {1}
            L == IF rest # {} THEN CHOOSE n \in rest : TRUE
                 ELSE IF btarget # NoTarget THEN btarget ELSE 1
        IN  IF Len(bcols) = 0 THEN bres.ok /\ bres.cols = <<>>
            ELSE IF Cardinality(rest) >= 2 THEN ~bres.ok
            ELSE IF rest # {} /\ btarget # NoTarget /\ btarget \notin rest
            THEN ~bres.ok
            ELSE /\ bres.ok
                 /\ Len(bres.cols) = Len(bcols)
                 /\ (rest = {} /\ btarget = NoTarget) => bres.cols = bcols
                 /\ \A i \in DOMAIN bcols :
                       /\ bres.cols[i].name = bcols[i].name
                       /\ Len(bres.cols[i].data) = L
                       /\ Len(bcols[i].data) # 1 => bres.cols[i] = bcols[i]
                       /\ Len(bcols[i].data) = 1 =>
                             \A j \in 1..L : bres.cols[i].data[j] = bcols[i].data[1]

\* A column of length 1 was repeated to the length 3 of another column.
C10_Witness ==
    /\ bres.called /\ bres.ok
    /\ \E i \in DOMAIN bcols : \E j \in DOMAIN bcols :
          /\ Len(bcols[i].data) = 1
          /\ Len(bcols[j].data) = 3
          /\ Len(bres.cols[i].data) = 3

\* ==================================================================
\* GroupBy.do_evaluate, called directly
\* ==================================================================
\* Largest number of rows of the table handed to GroupBy.do_evaluate.
MaxRows == 3

\* The values a key column holds.
KeyVals == {1, 2}

\* zlice = None.
NoZlice == <<>>

\* ---------------------------------------------------- table primitives
\* A plc.Table is a sequence of columns, each a sequence of values; rows
\* are numbered from 1.
NumRows(tbl) == IF tbl = <<>> THEN 0 ELSE Len(tbl[1])
TableRow(tbl, i) == [c \in DOMAIN tbl |-> tbl[c][i]]

\* plc.Table([k.obj for k in cols])
TableOf(cols) == [c \in DOMAIN cols |-> cols[c].data]

\* plc.copying.gather(tbl, map, DONT_CHECK)
Gather(tbl, map) == [c \in DOMAIN tbl |-> [i \in DOMAIN map |-> tbl[c][map[i]]]]

RECURSIVE AscendingSeq(_)
AscendingSeq(S) ==
    IF S = {} THEN <<>>
    ELSE LET m == CHOOSE x \in S : \A y \in S : x <= y
         IN  <<m>> \o AscendingSeq(S \ {m})

\* The orders in which the elements of S can be listed.
Orders(S) ==
    {f \in [1..Cardinality(S) -> S] :
        \A i \in DOMAIN f : \A j \in DOMAIN f : i # j => f[i] # f[j]}

\* The rows that are the first with their contents.
FirstRows(tbl) ==
    {i \in 1..NumRows(tbl) : \A j \in 1..(i - 1) : TableRow(tbl, j) # TableRow(tbl, i)}

\* plc.stream_compaction.stable_distinct(tbl, all columns, KEEP_FIRST, EQUAL, ALL_EQUAL)
StableDistinct(tbl) == Gather(tbl, AscendingSeq(FirstRows(tbl)))

\* plc.join.inner_join(left, right, EQUAL): the matching row pairs; the
\* primitive returns them as two gather maps, in an order of its choosing.
InnerJoin(left, right) ==
    {<<i, j>> \in (1..NumRows(left)) \X (1..NumRows(right)) :
        TableRow(left, i) = TableRow(right, j)}

\* (mutant) the values are handed back as they came.
SortByKeyKept(vals, keys) == vals

\* plc.sorting.sort_by_key(Table([vals]), Table([keys]), [ASCENDING], [AFTER]):
\* vals reordered by keys ascending, equal keys in the order they came.
SortByKey(vals, keys) ==
    LET n == Len(keys)
        rank(i) == 1 + Cardinality({j \in 1..n :
                        keys[j] < keys[i] \/ (keys[j] = keys[i] /\ j < i)})
    IN  [p \in 1..n |-> vals[CHOOSE i \in 1..n : rank(i) = p]]

RECURSIVE SumOver(_, _)
SumOver(data, S) ==
    IF S = {} THEN 0
    ELSE LET r == CHOOSE x \in S : TRUE
         IN  data[r] + SumOver(data, S \ {r})

\* The orders in which plc.groupby.GroupBy(keys, keys_are_sorted).aggregate
\* can return the groups, a group named by its first row: told that the
\* keys are sorted it goes through the rows as they are, otherwise the
\* order is its own.
GroupOrders(tbl, keys_are_sorted) ==
    IF keys_are_sorted THEN {AscendingSeq(FirstRows(tbl))} ELSE Orders(FirstRows(tbl))

\* The rows of the group named by row r.
GroupRows(tbl, r) == {i \in 1..NumRows(tbl) : TableRow(tbl, i) = TableRow(tbl, r)}

\* One column of raw_tables: GroupByRequest(col, [value.agg_request]) per group.
AggColumn(tbl, order, req) ==
    [g \in DOMAIN order |->
        IF req.kind = "len" THEN Cardinality(GroupRows(tbl, order[g]))
        ELSE SumOver(req.col, GroupRows(tbl, order[g]))]

\* DataFrame(columns).slice(zlice)
SliceColumns(cols, zlice) ==
    IF zlice = NoZlice THEN cols
    ELSE [c \in DOMAIN cols |->
            [cols[c] EXCEPT !.data = SliceRows(cols[c].data, zlice[1], zlice[2])]]

\* ------------------------------------------------------------- inputs
IsAscending(data) == \A i \in DOMAIN data : \A j \in DOMAIN data : i < j => data[i] <= data[j]

\* The columns the key expressions evaluate to on a table of n rows: the
\* first a column of the table (flagged sorted only if it is), the second
\* absent, a literal (length 1) or a column of the table.
KeyColumns(n) ==
    {<<k1>> \o k2 :
        k1 \in {Col("a", d, s) : d \in [1..n -> KeyVals], s \in BOOLEAN},
        k2 \in {<<>>, <<Col("b", <<1>>, FALSE)>>}
               \cup {<<Col("b", d, FALSE)>> : d \in [1..n -> KeyVals]}}

\* The aggregation requests: a sum over a column whose values tell the
\* rows apart, and a count.
AggRequests(n) ==
    <<[name |-> "s", kind |-> "sum", col |-> [i \in 1..n |-> 2 ^ (i - 1)]],
      [name |-> "n", kind |-> "len", col |-> <<>>]>>

InitGroupBy ==
    /\ EvalIdle
    /\ BroadcastIdle
    /\ \E n \in 0..MaxRows : \E ks \in KeyColumns(n) :
       \E mo \in BOOLEAN : \E z \in {NoZlice, <<0, 1>>} :
          /\ ks[1].sorted => IsAscending(ks[1].data)
          /\ fargs = [fn |-> "GroupBy.do_evaluate", keys_in |-> ks,
                      agg_requests |-> AggRequests(n), maintain_order |-> mo,
                      zlice |-> z, num_rows |-> n]
    /\ fres = [pc |-> "start"]

\* -------------------------------------------------------------- steps
\* Up to broadcasted = broadcast(*result_keys, *results): the keys are
\* broadcast to the table's length, the primitive groups and aggregates.
GroupByAggregate ==
    /\ fargs.fn = "GroupBy.do_evaluate"
    /\ fres.pc = "start"
    /\ LET keys == broadcast(fargs.keys_in, fargs.num_rows).cols
           sorted == \A k \in DOMAIN keys : keys[k].sorted
           tbl == TableOf(keys)
       IN  \E order \in GroupOrders(tbl, sorted) :
             LET group_keys == Gather(tbl, order)
                 results == [r \in DOMAIN fargs.agg_requests |->
                               Col(fargs.agg_requests[r].name,
                                   AggColumn(tbl, order, fargs.agg_requests[r]), FALSE)]
                 result_keys == [k \in DOMAIN keys |->
                                   Col(keys[k].name, group_keys[k], FALSE)]
             IN  fres' = [pc |-> "aggregated", keys |-> keys, sorted |-> sorted,
                          order |-> order,
                          broadcasted |-> broadcast(result_keys \o results, NoTarget).cols]
    /\ UNCHANGED fargs
    /\ UNCHANGED <<evalVars, bcastVars>>

\* if maintain_order and not sorted: the groups are put in the order of
\* first appearance.
GroupByReorder ==
    /\ fargs.fn = "GroupBy.do_evaluate"
    /\ fres.pc = "aggregated"
    /\ fargs.maintain_order /\ ~fres.sorted
    /\ LET want == StableDistinct(TableOf(fres.keys))
           have == TableOf(SubSeq(fres.broadcasted, 1, Len(fres.keys)))
       IN  \E pairs \in Orders(InnerJoin(want, have)) :
             LET left_order == [i \in DOMAIN pairs |-> pairs[i][1]]
                 right_order == SortByKey([i \in DOMAIN pairs |-> pairs[i][2]], left_order)
                 ordered_table == Gather(TableOf(fres.broadcasted), right_order)
             IN  fres' = [fres EXCEPT
                            !.pc = "ordered",
                            !.broadcasted =
                               [c \in DOMAIN fres.broadcasted |->
                                   Col(fres.broadcasted[c].name, ordered_table[c], FALSE)]]
    /\ UNCHANGED fargs
    /\ UNCHANGED <<evalVars, bcastVars>>

\* return DataFrame(broadcasted).slice(zlice)
GroupByReturn ==
    /\ fargs.fn = "GroupBy.do_evaluate"
    /\ \/ fres.pc = "ordered"
       \/ fres.pc = "aggregated" /\ ~(fargs.maintain_order /\ ~fres.sorted)
    /\ fres' = [pc |-> "done", keys |-> fres.keys, sorted |-> fres.sorted,
                order |-> fres.order, broadcasted |-> fres.broadcasted,
                reordered |-> (fres.pc = "ordered"),
                df |-> SliceColumns(fres.broadcasted, fargs.zlice)]
    /\ UNCHANGED fargs
    /\ UNCHANGED <<evalVars, bcastVars>>

NextGroupBy ==
    \/ GroupByAggregate
    \/ GroupByReorder
    \/ GroupByReturn

SpecGroupBy == InitGroupBy /\ [][NextGroupBy]_vars

\* ------------------------------------------------------------ C11
\* The key combination of row i of the input, and of row p of the output
\* before the slice.
InKey(i) == [k \in DOMAIN fres.keys |-> fres.keys[k].data[i]]
OutKey(p) == [k \in DOMAIN fres.keys |-> fres.broadcasted[k].data[p]]
OutRows == 1..Len(fres.broadcasted[1].data)
FirstAppearance(key) ==
    CHOOSE i \in 1..fargs.num_rows :
        InKey(i) = key /\ \A j \in 1..(i - 1) : InKey(j) # key
OutColumn(name) ==
    fres.broadcasted[CHOOSE c \in DOMAIN fres.broadcasted :
                        fres.broadcasted[c].name = name].data

\* C11: GroupBy with maintain_order=true returns (before the slice) one
\* row per distinct key combination of the input, the rows in the order
\* in which the key combinations first appear in the input, whatever the
\* order in which the grouping primitive returned the groups; each row
\* carries the aggregates of its own key: the sum and the count of the
\* input rows that have it.
C11_GroupByMaintainsOrder ==
    (fargs.fn = "GroupBy.do_evaluate" /\ fres.pc = "done" /\ fargs.maintain_order) =>
        /\ \A i \in 1..fargs.num_rows : \E p \in OutRows : OutKey(p) = InKey(i)
        /\ \A p \in OutRows : \E i \in 1..fargs.num_rows : OutKey(p) = InKey(i)
        /\ \A p \in OutRows : \A q \in OutRows :
              p < q => FirstAppearance(OutKey(p)) < FirstAppearance(OutKey(q))
        /\ \A c \in DOMAIN fres.broadcasted :
              Len(fres.broadcasted[c].data) = Len(fres.broadcasted[1].data)
        /\ \A p \in OutRows :
              LET mine == {i \in 1..fargs.num_rows : InKey(i) = OutKey(p)}
              IN  /\ OutColumn("n")[p] = Cardinality(mine)
                  /\ \A i \in 1..fargs.num_rows :
                        (i \in mine) <=> ((OutColumn("s")[p] \div (2 ^ (i - 1))) % 2 = 1)

\* The primitive returned at least two groups in an order that is not the
\* order of first appearance, and the call has returned.
C11_Witness ==
    /\ fargs.fn = "GroupBy.do_evaluate"
    /\ fres.pc = "done"
    /\ fargs.maintain_order
    /\ fres.reordered
    /\ Len(fres.order) >= 2
    /\ \E g \in DOMAIN fres.order : \E h \in DOMAIN fres.order :
          g < h /\ fres.order[g] > fres.order[h]
    /\ Len(fargs.keys_in) = 2

\* ==================================================================
\* Join and ConditionalJoin: construction and do_evaluate, called directly
\* ==================================================================
\* Largest number of row pairs a join primitive returns.
MaxPairs == 4

\* A null value of a column; in a gather map, an index out of bounds.
Null == 0

Hows == {"Inner", "Left", "Right", "Full", "Semi", "Anti", "Cross"}
MaintainOrders == {"none", "left", "right", "left_right", "right_left"}

\* ------------------------------------------------ DataFrame container
\* A DataFrame is the sequence of its columns.
ColumnNames(df) == [c \in DOMAIN df |-> df[c].name]
ColumnNamesSet(df) == {df[c].name : c \in DOMAIN df}
NumDfRows(df) == NumRows(TableOf(df))

\* DataFrame.from_table(table, names)
FromTable(tbl, names) == [c \in DOMAIN tbl |-> Col(names[c], tbl[c], FALSE)]

\* DataFrame.select_columns(names) and DataFrame.discard_columns(names)
SelectColumns(df, names) == SelectSeq(df, LAMBDA c : c.name \in names)
DiscardColumns(df, names) == SelectSeq(df, LAMBDA c : c.name \notin names)

\* DataFrame.rename_columns(mapping): mapping is a function on the names
\* to change.
RenameColumns(df, mapping) ==
    [c \in DOMAIN df |->
        IF df[c].name \in DOMAIN mapping
        THEN [df[c] EXCEPT !.name = mapping[df[c].name]]
        ELSE df[c]]

\* DataFrame.with_columns(columns): the frame's columns are keyed by name;
\* a column whose name the frame has takes that column's place, the
\* others are added at the end (of columns of one name, the last counts).
WithColumns(df, columns) ==
    LET all == df \o columns
        first == {i \in DOMAIN all : \A j \in 1..(i - 1) : all[j].name # all[i].name}
        last(i) == CHOOSE j \in DOMAIN all :
                      /\ all[j].name = all[i].name
                      /\ \A h \in DOMAIN all : all[h].name = all[i].name => h <= j
        at == AscendingSeq(first)
    IN  [p \in DOMAIN at |-> all[last(at[p])]]

\* ------------------------------------------------------ join primitives
\* plc.copying.gather(tbl, map, policy)
GatherPolicy(tbl, map, policy) ==
    IF policy = "NULLIFY"
    THEN [c \in DOMAIN tbl |->
            [i \in DOMAIN map |-> IF map[i] = Null THEN Null ELSE tbl[c][map[i]]]]
    ELSE Gather(tbl, map)

Matched(left, right) == {p[1] : p \in InnerJoin(left, right)}
MatchedRight(left, right) == {p[2] : p \in InnerJoin(left, right)}

\* The row pairs of plc.join.left_join and plc.join.full_join: a row
\* without a match is paired with an index out of bounds.
LeftJoin(left, right) ==
    InnerJoin(left, right)
    \cup {<<i, Null>> : i \in (1..NumRows(left)) \ Matched(left, right)}
FullJoin(left, right) ==
    LeftJoin(left, right)
    \cup {<<Null, j>> : j \in (1..NumRows(right)) \ MatchedRight(left, right)}

\* The rows of plc.join.left_semi_join and plc.join.left_anti_join.
LeftSemiJoin(left, right) == Matched(left, right)
LeftAntiJoin(left, right) == (1..NumRows(left)) \ Matched(left, right)

\* Join._joiners(how): the primitive and the two gather policies.
Joiners(how) ==
    CASE how = "Inner" -> <<"inner_join", "DONT_CHECK", "DONT_CHECK">>
      [] how \in {"Left", "Right"} -> <<"left_join", "DONT_CHECK", "NULLIFY">>
      [] how = "Full" -> <<"full_join", "NULLIFY", "NULLIFY">>
      [] how = "Semi" -> <<"left_semi_join", "DONT_CHECK", "None">>
      [] how = "Anti" -> <<"left_anti_join", "DONT_CHECK", "None">>

\* What join_fn(left_on.table, right_on.table, null_equality) can return,
\* as a set; the primitive returns it in an order of its choosing.
JoinFn(fn, left, right) ==
    CASE fn = "inner_join" -> InnerJoin(left, right)
      [] fn = "left_join" -> LeftJoin(left, right)
      [] fn = "full_join" -> FullJoin(left, right)
      [] fn = "left_semi_join" -> LeftSemiJoin(left, right)
      [] fn = "left_anti_join" -> LeftAntiJoin(left, right)

\* plc.join.cross_join(left, right): every left row with every right row,
\* the left rows in order and under each the right rows in order.
CrossJoin(left, right) ==
    LET nl == NumRows(left)
        nr == NumRows(right)
    IN  [c \in 1..Len(left) |-> [p \in 1..(nl * nr) |-> left[c][((p - 1) \div nr) + 1]]]
        \o [c \in 1..Len(right) |-> [p \in 1..(nl * nr) |-> right[c][((p - 1) % nr) + 1]]]

\* The predicate of a ConditionalJoin on two rows of keys.
Holds(predicate, l, r) == predicate = "lt" /\ l[1] < r[1]

\* to_ast(predicate): None for a predicate that cannot be translated.
ToAst(predicate) == IF predicate = "lt" THEN "lt" ELSE "None"

\* plc.join.conditional_inner_join(left, right, ast), as a set.
ConditionalInnerJoin(left, right, ast) ==
    {<<i, j>> \in (1..NumRows(left)) \X (1..NumRows(right)) :
        Holds(ast, TableRow(left, i), TableRow(right, j))}

\* plc.filling.sequence(n, init, step), rows numbered from 1
Sequence(n) == [i \in 1..n |-> i]

\* Ascending with nulls after: a comes before b.
Before(a, b) == a # Null /\ (b = Null \/ a < b)

\* plc.sorting.stable_sort_by_key(Table([lg, rg]), Table([lo, ro]),
\* [ASCENDING, ASCENDING], [AFTER, AFTER])
StableSortByKey(lg, rg, lo, ro) ==
    LET n == Len(lg)
        less(j, i) == \/ Before(lo[j], lo[i])
                      \/ lo[j] = lo[i] /\ Before(ro[j], ro[i])
                      \/ lo[j] = lo[i] /\ ro[j] = ro[i] /\ j < i
        rank(i) == 1 + Cardinality({j \in 1..n : less(j, i)})
        at(p) == CHOOSE i \in 1..n : rank(i) = p
    IN  <<[p \in 1..n |-> lg[at(p)]], [p \in 1..n |-> rg[at(p)]]>>

\* (mutant) the gather maps are handed back as the primitive returned them.
ReorderMapsKept(left_rows, lg, left_policy, right_rows, rg, right_policy) == <<lg, rg>>

\* Join._reorder_maps(left_rows, lg, left_policy, right_rows, rg, right_policy)
ReorderMaps(left_rows, lg, left_policy, right_rows, rg, right_policy) ==
    LET left_order == GatherPolicy(<<Sequence(left_rows)>>, lg, left_policy)
        right_order == GatherPolicy(<<Sequence(right_rows)>>, rg, right_policy)
    IN  StableSortByKey(lg, rg, left_order[1], right_order[1])

\* (mutant) the tables stay as they are.
SwapKept(how, left, right) == <<left, right>>

\* if how == "Right": left, right = right, left
Swap(how, left, right) == IF how = "Right" THEN <<right, left>> ELSE <<left, right>>

\* {name: f"{name}{suffix}" for name in right.column_names if name in left.column_names_set}
SuffixMapping(left, right, suffix) ==
    [name \in ColumnNamesSet(right) \cap ColumnNamesSet(left) |-> name \o suffix]

\* ------------------------------------------------------- construction
\* (mutant) the order-maintenance option is not looked at.
MaintainOrderAccepted(options) == FALSE

\* if options[5] != "none"
MaintainOrderRejected(options) == options[6] # "none"

\* Join(schema, left_on, right_on, options, config_options, left, right)
JoinNew(left_on, right_on, options) ==
    IF MaintainOrderRejected(options)
    THEN [ok |-> FALSE,
          err |-> [type |-> "NotImplementedError", msg |-> "maintain_order not implemented yet"]]
    ELSE [ok |-> TRUE, kind |-> "Join",
          non_child_args |-> <<left_on, right_on, options>>]

\* ConditionalJoin(schema, predicate, options, left, right)
ConditionalJoinNew(predicate, options) ==
    LET ast == ToAst(predicate)
        nulls_equal == options[2]
        coalesce == options[5]
        maintain_order == options[6]
    IN  IF nulls_equal \/ coalesce \/ maintain_order # "none"
        THEN [ok |-> FALSE, err |-> [type |-> "AssertionError", msg |-> ""]]
        ELSE IF ast = "None"
        THEN [ok |-> FALSE,
              err |-> [type |-> "NotImplementedError", msg |-> "Conditional join with predicate"]]
        ELSE [ok |-> TRUE, kind |-> "ConditionalJoin",
              non_child_args |-> <<ast, options[3], options[4], maintain_order>>]

\* ------------------------------------------------------------- inputs
\* The two tables of the calls that look at the rows: a key column k and
\* a column v that numbers the rows (10 + i on the left, 20 + j on the
\* right).
RowsTable(keys, base) ==
    <<Col("k", keys, FALSE), Col("v", [i \in DOMAIN keys |-> base + i], FALSE)>>

\* The key columns of tables of up to n rows.
KeySeqs(n) == UNION {[1..m -> KeyVals] : m \in 0..n}

\* The tables of the calls that look at the names: one row, the key
\* column k and some of the columns a and a_right.
NamesTables ==
    {<<Col("k", <<1>>, FALSE)>> \o a \o ar :
        a \in {<<>>, <<Col("a", <<5>>, FALSE)>>},
        ar \in {<<>>, <<Col("a_right", <<6>>, FALSE)>>}}

JoinCall(fn, predicate, options, left, right) ==
    [fn |-> fn, predicate |-> predicate, options |-> options,
     left_on |-> <<"k">>, right_on |-> <<"k">>, left |-> left, right |-> right]

JoinFns == {<<"Join", "">>, <<"ConditionalJoin", "lt">>}

InitJoin ==
    /\ EvalIdle
    /\ BroadcastIdle
    /\ \/ \E lk \in KeySeqs(MaxRows) : \E rk \in KeySeqs(MaxRows - 1) : \E f \in JoinFns :
          \E how \in Hows : \E coalesce \in BOOLEAN : \E z \in {NoZlice, <<1, 2>>} :
             /\ Cardinality(FullJoin(<<lk>>, <<rk>>)) <= MaxPairs
             /\ f[1] = "ConditionalJoin" => (how = "Inner" /\ ~coalesce)
             /\ z # NoZlice => ~coalesce
             /\ fargs = JoinCall(f[1], f[2],
                                 <<how, FALSE, z, "_right", coalesce, "none">>,
                                 RowsTable(lk, 10), RowsTable(rk, 20))
       \/ \E l \in NamesTables : \E r \in NamesTables : \E f \in JoinFns :
          \E how \in Hows : \E coalesce \in BOOLEAN : \E suffix \in {"", "_right"} :
             /\ f[1] = "ConditionalJoin" => (how = "Inner" /\ ~coalesce)
             /\ fargs = JoinCall(f[1], f[2],
                                 <<how, FALSE, NoZlice, suffix, coalesce, "none">>, l, r)
       \/ \E f \in JoinFns \cup {<<"ConditionalJoin", "unsupported">>} :
          \E nulls_equal \in BOOLEAN : \E coalesce \in BOOLEAN :
          \E maintain_order \in MaintainOrders :
             fargs = JoinCall(f[1], f[2],
                              <<"Inner", nulls_equal, NoZlice, "_right", coalesce,
                                maintain_order>>,
                              RowsTable(<<1>>, 10), RowsTable(<<1>>, 20))
    /\ fres = [pc |-> "new"]

\* -------------------------------------------------------------- steps
\* Join.__init__
JoinInit ==
    /\ fargs.fn = "Join"
    /\ fres.pc = "new"
    /\ LET node == JoinNew(fargs.left_on, fargs.right_on, fargs.options)
       IN  fres' = IF node.ok THEN [pc |-> "constructed", node |-> node]
                   ELSE [pc |-> "raised", err |-> node.err]
    /\ UNCHANGED fargs
    /\ UNCHANGED <<evalVars, bcastVars>>

\* ConditionalJoin.__init__
ConditionalJoinInit ==
    /\ fargs.fn = "ConditionalJoin"
    /\ fres.pc = "new"
    /\ LET node == ConditionalJoinNew(fargs.predicate, fargs.options)
       IN  fres' = IF node.ok THEN [pc |-> "constructed", node |-> node]
                   ELSE [pc |-> "raised", err |-> node.err]
    /\ UNCHANGED fargs
    /\ UNCHANGED <<evalVars, bcastVars>>

\* The result of a call: what the primitive returned, the table before
\* result.slice(zlice) and the table returned.
JoinDone(node, returned, result, zlice) ==
    [pc |-> "done", node |-> node, returned |-> returned, result |-> result,
     df |-> SliceColumns(result, zlice)]

\* ConditionalJoin.do_evaluate(*node._non_child_args, left, right)
ConditionalJoinDoEvaluate ==
    /\ fres.pc = "constructed"
    /\ fres.node.kind = "ConditionalJoin"
    /\ LET ast == fres.node.non_child_args[1]
           zlice == fres.node.non_child_args[2]
           suffix == fres.node.non_child_args[3]
       IN  \E pairs \in Orders(ConditionalInnerJoin(TableOf(fargs.left),
                                                    TableOf(fargs.right), ast)) :
             LET lg == [i \in DOMAIN pairs |-> pairs[i][1]]
                 rg == [i \in DOMAIN pairs |-> pairs[i][2]]
                 left == FromTable(Gather(TableOf(fargs.left), lg), ColumnNames(fargs.left))
                 right == FromTable(Gather(TableOf(fargs.right), rg), ColumnNames(fargs.right))
                 renamed == RenameColumns(right, SuffixMapping(left, right, suffix))
             IN  fres' = JoinDone(fres.node, pairs, WithColumns(left, renamed), zlice)
    /\ UNCHANGED fargs
    /\ UNCHANGED <<evalVars, bcastVars>>

\* Join.do_evaluate, how == "Cross"
JoinCross ==
    /\ fres.pc = "constructed"
    /\ fres.node.kind = "Join"
    /\ LET options == fres.node.non_child_args[3]
           suffix == options[4]
           left == fargs.left
           right == fargs.right
           columns == CrossJoin(TableOf(left), TableOf(right))
           left_cols == [c \in DOMAIN left |-> Col(left[c].name, columns[c], left[c].sorted)]
           right_cols == [c \in DOMAIN right |->
                            Col(IF right[c].name \notin ColumnNamesSet(left)
                                THEN right[c].name
                                ELSE right[c].name \o suffix,
                                columns[Len(left) + c], FALSE)]
       IN  /\ options[1] = "Cross"
           /\ fres' = JoinDone(fres.node, <<>>, left_cols \o right_cols, options[3])
    /\ UNCHANGED fargs
    /\ UNCHANGED <<evalVars, bcastVars>>

\* The key tables: DataFrame(broadcast(*(e.evaluate(df) for e in on_exprs)))
OnColumns(df, on) ==
    broadcast([e \in DOMAIN on |->
                  df[CHOOSE c \in DOMAIN df : df[c].name = on[e]]], NoTarget).cols

\* Join.do_evaluate, right_policy is None: Semi and Anti
JoinSemi ==
    /\ fres.pc = "constructed"
    /\ fres.node.kind = "Join"
    /\ LET options == fres.node.non_child_args[3]
           how == options[1]
           left_on == OnColumns(fargs.left, fres.node.non_child_args[1])
           right_on == OnColumns(fargs.right, fres.node.non_child_args[2])
       IN  /\ how \in {"Semi", "Anti"}
           /\ \E lg \in Orders(JoinFn(Joiners(how)[1], TableOf(left_on), TableOf(right_on))) :
                 fres' = JoinDone(fres.node, lg,
                                  FromTable(GatherPolicy(TableOf(fargs.left), lg, Joiners(how)[2]),
                                            ColumnNames(fargs.left)),
                                  options[3])
    /\ UNCHANGED fargs
    /\ UNCHANGED <<evalVars, bcastVars>>

\* Join.do_evaluate, up to lg, rg = join_fn(...): the tables are swapped
\* for a Right join and the primitive returns its two gather maps.
JoinMaps ==
    /\ fres.pc = "constructed"
    /\ fres.node.kind = "Join"
    /\ LET options == fres.node.non_child_args[3]
           how == options[1]
           dfs == Swap(how, fargs.left, fargs.right)
           ons == Swap(how, OnColumns(fargs.left, fres.node.non_child_args[1]),
                            OnColumns(fargs.right, fres.node.non_child_args[2]))
       IN  /\ how \in {"Inner", "Left", "Right", "Full"}
           /\ \E pairs \in Orders(JoinFn(Joiners(how)[1], TableOf(ons[1]), TableOf(ons[2]))) :
                 fres' = [pc |-> "joined", node |-> fres.node,
                          left |-> dfs[1], right |-> dfs[2],
                          left_on |-> ons[1], right_on |-> ons[2],
                          lg |-> [i \in DOMAIN pairs |-> pairs[i][1]],
                          rg |-> [i \in DOMAIN pairs |-> pairs[i][2]],
                          returned |-> pairs]
    /\ UNCHANGED fargs
    /\ UNCHANGED <<evalVars, bcastVars>>

\* if how == "Left" or how == "Right": lg, rg = cls._reorder_maps(...)
JoinReorderMaps ==
    /\ fres.pc = "joined"
    /\ LET how == fres.node.non_child_args[3][1]
           maps == ReorderMaps(NumDfRows(fres.left), fres.lg, Joiners(how)[2],
                               NumDfRows(fres.right), fres.rg, Joiners(how)[3])
       IN  /\ how \in {"Left", "Right"}
           /\ fres' = [fres EXCEPT !.pc = "reordered", !.lg = maps[1], !.rg = maps[2]]
    /\ UNCHANGED fargs
    /\ UNCHANGED <<evalVars, bcastVars>>

\* plc.replace.replace_nulls(left_col.obj, right_col.obj)
ReplaceNulls(l, r) == [i \in DOMAIN l |-> IF l[i] = Null THEN r[i] ELSE l[i]]

\* Join.do_evaluate from if coalesce: to the return: the key columns are
\* coalesced, the two tables gathered, swapped back, the right one
\* renamed and the two glued.
JoinGlue ==
    /\ \/ fres.pc = "reordered"
       \/ fres.pc = "joined" /\ fres.node.non_child_args[3][1] \in {"Inner", "Full"}
    /\ LET options == fres.node.non_child_args[3]
           how == options[1]
           suffix == options[4]
           coalesce == options[5]
           left0 == IF coalesce /\ how = "Full"
                    THEN WithColumns(fres.left, fres.left_on) ELSE fres.left
           right0 == IF coalesce
                     THEN IF how = "Full"
                          THEN WithColumns(fres.right, fres.right_on)
                          ELSE DiscardColumns(fres.right, ColumnNamesSet(fres.right_on))
                     ELSE fres.right
           left1 == FromTable(GatherPolicy(TableOf(left0), fres.lg, Joiners(how)[2]),
                              ColumnNames(left0))
           right1 == FromTable(GatherPolicy(TableOf(right0), fres.rg, Joiners(how)[3]),
                               ColumnNames(right0))
           lkeys == SelectColumns(left1, ColumnNamesSet(fres.left_on))
           rkeys == SelectColumns(right1, ColumnNamesSet(fres.right_on))
           left2 == IF coalesce /\ how = "Full"
                    THEN WithColumns(left1,
                            [c \in DOMAIN lkeys |->
                                Col(lkeys[c].name,
                                    ReplaceNulls(lkeys[c].data, rkeys[c].data), FALSE)])
                    ELSE left1
           right2 == IF coalesce /\ how = "Full"
                     THEN DiscardColumns(right1, ColumnNamesSet(fres.right_on))
                     ELSE right1
           back == Swap(how, left2, right2)
           renamed == RenameColumns(back[2], SuffixMapping(back[1], back[2], suffix))
       IN  fres' = JoinDone(fres.node, fres.returned, WithColumns(back[1], renamed), options[3])
    /\ UNCHANGED fargs
    /\ UNCHANGED <<evalVars, bcastVars>>

NextJoin ==
    \/ JoinInit
    \/ ConditionalJoinInit
    \/ ConditionalJoinDoEvaluate
    \/ JoinCross
    \/ JoinSemi
    \/ JoinMaps
    \/ JoinReorderMaps
    \/ JoinGlue

SpecJoin == InitJoin /\ [][NextJoin]_vars

\* ------------------------------------------------------- C12 .. C15
\* The data of the column of a table that has the name.
ColumnOf(df, name) == df[CHOOSE c \in DOMAIN df : df[c].name = name].data

\* A Join of the given kind on the tables that number their rows has
\* returned.
JoinReturned(how) ==
    /\ fargs.fn = "Join"
    /\ fres.pc = "done"
    /\ fargs.options[1] = how
    /\ "v" \in ColumnNamesSet(fargs.left)

\* The left and the right input row that output row p (before the slice)
\* was made of, from the columns that number the rows; Null for a side
\* whose fields are null.
LeftRowOf(p) ==
    IF ColumnOf(fres.result, "v")[p] = Null THEN Null
    ELSE ColumnOf(fres.result, "v")[p] - 10
RightRowOf(p) ==
    IF ColumnOf(fres.result, "v_right")[p] = Null THEN Null
    ELSE ColumnOf(fres.result, "v_right")[p] - 20
ResultRows == 1..NumDfRows(fres.result)
LeftKey(i) == ColumnOf(fargs.left, "k")[i]
RightKey(j) == ColumnOf(fargs.right, "k")[j]
LeftRows == 1..NumDfRows(fargs.left)
RightRows == 1..NumDfRows(fargs.right)

\* C12: a Left join returns (before the slice), whatever the order of the
\* gather maps the primitive returned, the rows in ascending left row
\* order, the rows of one left row in ascending right row order; a left
\* row with matches appears once per match, a left row without a match
\* once with null right-side fields.
C12_LeftJoinOrder ==
    JoinReturned("Left") =>
        /\ \A p \in ResultRows : LeftRowOf(p) \in LeftRows
        /\ \A p \in ResultRows : \A q \in ResultRows :
              p < q =>
                 \/ LeftRowOf(p) < LeftRowOf(q)
                 \/ /\ LeftRowOf(p) = LeftRowOf(q)
                    /\ RightRowOf(p) # Null /\ RightRowOf(q) # Null
                    /\ RightRowOf(p) < RightRowOf(q)
        /\ \A i \in LeftRows :
              LET matches == {j \in RightRows : RightKey(j) = LeftKey(i)}
                  mine == {p \in ResultRows : LeftRowOf(p) = i}
              IN  /\ \A p \in mine : ColumnOf(fres.result, "k")[p] = LeftKey(i)
                  /\ IF matches = {}
                     THEN /\ Cardinality(mine) = 1
                          /\ \A p \in mine : \A c \in DOMAIN fres.result :
                                c > 2 => fres.result[c].data[p] = Null
                     ELSE {RightRowOf(p) : p \in mine} = matches

\* A Left join has returned after the primitive returned its pairs out of
\* order; one left row has two matches and one has none.
C12_Witness ==
    /\ JoinReturned("Left")
    /\ \E a \in DOMAIN fres.returned : \E b \in DOMAIN fres.returned :
          a < b /\ fres.returned[a][1] > fres.returned[b][1]
    /\ \E a \in DOMAIN fres.returned : \E b \in DOMAIN fres.returned :
          /\ a < b
          /\ fres.returned[a][1] = fres.returned[b][1]
          /\ fres.returned[a][2] > fres.returned[b][2]
    /\ \E a \in DOMAIN fres.returned : fres.returned[a][2] = Null

\* The names a Right join returns when the right table's names that the
\* left table has take the suffix.
SuffixedNames(left_names, right_names, suffix) ==
    left_names \o [c \in DOMAIN right_names |->
                      IF \E d \in DOMAIN left_names : left_names[d] = right_names[c]
                      THEN right_names[c] \o suffix ELSE right_names[c]]

\* The rows of a Right join: in ascending right row order, the rows of
\* one right row in ascending left row order; every right row appears,
\* once per match or once with null left-side fields.
RightJoinRows ==
    /\ \A p \in ResultRows : RightRowOf(p) \in RightRows
    /\ \A p \in ResultRows : \A q \in ResultRows :
          p < q =>
             \/ RightRowOf(p) < RightRowOf(q)
             \/ /\ RightRowOf(p) = RightRowOf(q)
                /\ LeftRowOf(p) # Null /\ LeftRowOf(q) # Null
                /\ LeftRowOf(p) < LeftRowOf(q)
    /\ \A j \in RightRows :
          LET matches == {i \in LeftRows : LeftKey(i) = RightKey(j)}
              mine == {p \in ResultRows : RightRowOf(p) = j}
          IN  IF matches = {}
              THEN Cardinality(mine) = 1 /\ \A p \in mine : LeftRowOf(p) = Null
              ELSE {LeftRowOf(p) : p \in mine} = matches

\* C13 as stated: a Right join returns the rows in the right table's row
\* order (ties in left row order), every right row at least once, and its
\* columns are the left table's columns followed by the right table's,
\* the suffix on the right table's names that collide.
C13_RightJoinAllLeftColumns ==
    JoinReturned("Right") =>
        /\ RightJoinRows
        /\ ColumnNames(fres.result) =
              SuffixedNames(ColumnNames(fargs.left), ColumnNames(fargs.right),
                            fargs.options[4])

\* C13 amended: as above, but with coalesce set the left table's key
\* columns are not in the output (the key is the right table's), and the
\* suffix goes on the right table's names that collide with the left
\* columns that remain.
C13_RightJoinSwappedBack ==
    JoinReturned("Right") =>
        /\ RightJoinRows
        /\ ColumnNames(fres.result) =
              SuffixedNames(
                 IF fargs.options[5]
                 THEN SelectSeq(ColumnNames(fargs.left),
                                LAMBDA n : \A e \in DOMAIN fargs.left_on : fargs.left_on[e] # n)
                 ELSE ColumnNames(fargs.left),
                 ColumnNames(fargs.right), fargs.options[4])
        /\ \A p \in ResultRows :
              ColumnOf(fres.result, IF fargs.options[5] THEN "k" ELSE "k_right")[p]
                 = RightKey(RightRowOf(p))

\* A Right join has returned after the primitive returned its pairs out
\* of order; one right row has two matches and one has none.
C13_Witness ==
    /\ JoinReturned("Right")
    /\ \E a \in DOMAIN fres.returned : \E b \in DOMAIN fres.returned :
          a < b /\ fres.returned[a][1] > fres.returned[b][1]
    /\ \E a \in DOMAIN fres.returned : \E b \in DOMAIN fres.returned :
          /\ a < b
          /\ fres.returned[a][1] = fres.returned[b][1]
          /\ fres.returned[a][2] > fres.returned[b][2]
    /\ \E a \in DOMAIN fres.returned : fres.returned[a][2] = Null
    /\ NumDfRows(fargs.left) # NumDfRows(fargs.right)

\* C14: the table a Join (of any kind) or a ConditionalJoin returns has
\* pairwise distinct column names, for every pair of input schemas and
\* every suffix.
C14_DistinctNames ==
    (fargs.fn \in {"Join", "ConditionalJoin"} /\ fres.pc = "done") =>
        \A c \in DOMAIN fres.df : \A d \in DOMAIN fres.df :
            c # d => fres.df[c].name # fres.df[d].name

\* The options with which construction is to fail.
Unsupported ==
    \/ fargs.fn = "Join" /\ fargs.options[6] # "none"
    \/ /\ fargs.fn = "ConditionalJoin"
       /\ (fargs.options[2] \/ fargs.options[5] \/ fargs.options[6] # "none")

\* C15: constructing a Join with order maintenance other than "none", or
\* a ConditionalJoin with nulls_equal set, coalesce set or order
\* maintenance other than "none", fails: the call is either still to be
\* made or has raised, and no node exists to be evaluated.
C15_ConstructionFails ==
    Unsupported =>
        /\ fres.pc \in {"new", "raised"}
        /\ "node" \notin DOMAIN fres
        /\ fres.pc = "raised" =>
              fres.err.type \in {"NotImplementedError", "AssertionError"}

\* The construction of a Join with order maintenance "left" has raised.
C15_Witness ==
    /\ fargs.fn = "Join"
    /\ fargs.options[6] = "left"
    /\ fres.pc = "raised"
    /\ fres.err.type = "NotImplementedError"

\* ==================================================================
\* The aggregation decomposer (dsl/utils/aggregations.py)
\* ==================================================================
\* Largest depth of an aggregation expression handed to the decomposer.
MaxDepth == 3
\* Largest number of aggregation expressions in one call.
MaxAggs == 3

\* -------------------------------------------------------- expressions
\* An expression node: its class, its name (a column's name, an
\* aggregation's or a function's name), its dtype, its options and its
\* children.
Expr(kind, name, dtype, options, children) ==
    [kind |-> kind, name |-> name, dtype |-> dtype, options |-> options,
     children |-> children]

ColExpr(dtype, name) == Expr("Col", name, dtype, <<>>, <<>>)
LenExpr == Expr("Len", "len", "UINT32", <<>>, <<>>)
LiteralExpr(dtype, value) == Expr("Literal", "lit", dtype, <<value>>, <<>>)
AggExpr(dtype, name, options, children) == Expr("Agg", name, dtype, options, children)
UnaryFunction(dtype, name, children) == Expr("UnaryFunction", name, dtype, <<>>, children)
BinOp(dtype, left, right) == Expr("BinOp", "add", dtype, <<>>, <<left, right>>)
CastExpr(dtype, child) == Expr("Cast", "cast", dtype, <<>>, <<child>>)
Ternary(dtype, when, then, otherwise) ==
    Expr("Ternary", "ternary", dtype, <<>>, <<when, then, otherwise>>)
\* An expression that is none of the above and not pointwise: a window.
GroupedRollingWindow(dtype, child) == Expr("GroupedRollingWindow", "over", dtype, <<>>, <<child>>)

\* Expr.is_pointwise
IsPointwise(e) == e.kind \in {"Col", "Literal", "UnaryFunction", "BinOp", "Cast", "Ternary"}

\* Expr.reconstruct(children)
Reconstruct(e, children) == [e EXCEPT !.children = children]

\* expr.NamedExpr(name, value) and NamedExpr.reconstruct(value)
NamedExpr(name, value) == [name |-> name, value |-> value]
NamedReconstruct(ne, value) == NamedExpr(ne.name, value)

\* plc.traits.is_floating_point, plc.traits.is_integral
IsFloatingPoint(dtype) == dtype = "FLOAT64"
IsIntegral(dtype) == dtype \in {"INT32", "INT64", "UINT32"}

\* next(name_generator): the generator is the count of the names it has
\* given out.
NextName(gen) == "_tmp" \o ToString(gen)

\* ------------------------------------------------ decompose_single_agg
\* What a call gives: the requests, the post-aggregation expression(s),
\* the has-aggregation flag(s) and the generator after the call, or the
\* exception raised.
Decomposed(aggs, post, has_agg, gen) ==
    [ok |-> TRUE, aggs |-> aggs, post |-> post, has_agg |-> has_agg, gen |-> gen,
     err |-> NoError]
Rejected(type, msg, gen) ==
    [ok |-> FALSE, aggs |-> <<>>, post |-> <<>>, has_agg |-> FALSE, gen |-> gen,
     err |-> [type |-> type, msg |-> msg]]

\* (mutant) an aggregation below the aggregated child goes unnoticed.
IsNestedNever(r) == FALSE

\* if has_agg: raise NotImplementedError("Nested aggs in groupby not supported")
IsNested(r) == r.has_agg

\* (mutant) every sum is filled.
FillsNullAlways(is_top) == TRUE

\* if is_top: the sum's nulls are replaced
FillsNull(is_top) == is_top

\* (mutant) a literal is handed on as a request.
LiteralRequestsKept(named_expr) == <<named_expr>>

\* The requests of a literal: return [], named_expr, False
LiteralRequests(named_expr) == <<>>

RECURSIVE DecomposeSingleAgg(_, _, _)
RECURSIVE DecomposeEach(_, _, _, _)

\* decompose_single_agg(agg, ...) for each agg of aggs in turn, as the
\* generator expression handed to zip runs: the items are named
\* expressions, or (named = FALSE) expressions that take the generator's
\* next name when their turn comes.  The first exception ends it.
DecomposeEach(items, named, gen, is_top) ==
    IF items = <<>> THEN Decomposed(<<>>, <<>>, <<>>, gen)
    ELSE LET gen1 == IF named THEN gen ELSE gen + 1
             ne == IF named THEN Head(items) ELSE NamedExpr(NextName(gen), Head(items))
             r == DecomposeSingleAgg(ne, gen1, is_top)
         IN  IF ~r.ok THEN r
             ELSE LET rest == DecomposeEach(Tail(items), named, r.gen, is_top)
                  IN  IF ~rest.ok THEN rest
                      ELSE Decomposed(r.aggs \o rest.aggs, <<r.post>> \o rest.post,
                                      <<r.has_agg>> \o rest.has_agg, rest.gen)

\* _decompose_aggs(aggs, name_generator, is_top): unpacking the zip of
\* no results into three names raises ValueError.
DecomposeAggsInner(items, named, gen, is_top) ==
    LET r == DecomposeEach(items, named, gen, is_top)
    IN  IF r.ok /\ items = <<>>
        THEN Rejected("ValueError", "not enough values to unpack", gen)
        ELSE r

DecomposeSingleAgg(named_expr, gen, is_top) ==
    LET agg == named_expr.value
        name == named_expr.name
    IN  CASE agg.kind = "Col" -> Decomposed(<<named_expr>>, named_expr, FALSE, gen)
          [] agg.kind = "Len" ->
               Decomposed(<<named_expr>>,
                          NamedReconstruct(named_expr, ColExpr(agg.dtype, name)), TRUE, gen)
          [] agg.kind = "Literal" ->
               Decomposed(LiteralRequests(named_expr), named_expr, FALSE, gen)
          [] agg.kind = "Agg" ->
               LET child == agg.children[1]
                   needs_masking == agg.name \in {"min", "max"} /\ IsFloatingPoint(child.dtype)
                   sub == DecomposeSingleAgg(NamedExpr(NextName(gen), child), gen + 1, FALSE)
               IN  IF needs_masking /\ agg.options # <<>>
                   THEN Rejected("NotImplementedError",
                                 "Nan propagation in groupby for min/max", gen)
                   ELSE IF ~sub.ok THEN sub
                   ELSE IF IsNested(sub)
                   THEN Rejected("NotImplementedError",
                                 "Nested aggs in groupby not supported", sub.gen)
                   ELSE IF needs_masking
                   THEN Decomposed(
                           <<NamedReconstruct(named_expr,
                                Reconstruct(agg, <<UnaryFunction(child.dtype, "mask_nans",
                                                                  <<child>>)>>))>>,
                           NamedReconstruct(named_expr, ColExpr(agg.dtype, name)),
                           TRUE, sub.gen)
                   ELSE IF agg.name = "sum"
                   THEN LET col == IF IsIntegral(agg.dtype) /\ agg.dtype # "INT64"
                                   THEN CastExpr(agg.dtype, ColExpr("INT64", name))
                                   ELSE ColExpr(agg.dtype, name)
                        IN  IF FillsNull(is_top)
                            THEN Decomposed(
                                    <<named_expr>>,
                                    NamedReconstruct(named_expr,
                                       UnaryFunction(agg.dtype, "fill_null",
                                                     <<col, LiteralExpr(agg.dtype, "0")>>)),
                                    TRUE, sub.gen)
                            ELSE Decomposed(<<named_expr>>, NamedExpr(name, col), TRUE, sub.gen)
                   ELSE Decomposed(<<named_expr>>,
                                   NamedReconstruct(named_expr, ColExpr(agg.dtype, name)),
                                   TRUE, sub.gen)
          [] agg.kind = "Ternary" ->
               Rejected("NotImplementedError", "Ternary inside groupby", gen)
          [] agg.kind \notin {"Col", "Len", "Literal", "Agg", "Ternary"} /\ IsPointwise(agg) ->
               LET r == DecomposeAggsInner(agg.children, FALSE, gen, FALSE)
               IN  IF ~r.ok THEN r
                   ELSE IF \E i \in DOMAIN r.has_agg : r.has_agg[i]
                   THEN Decomposed(
                           r.aggs,
                           NamedReconstruct(named_expr,
                              Reconstruct(agg, [i \in DOMAIN r.post |-> r.post[i].value])),
                           TRUE, r.gen)
                   ELSE Decomposed(<<named_expr>>,
                                   NamedReconstruct(named_expr, ColExpr(agg.dtype, name)),
                                   FALSE, r.gen)
          [] OTHER -> Rejected("NotImplementedError", "No support in groupby", gen)

\* decompose_aggs(aggs, name_generator)
DecomposeAggs(aggs, gen) == DecomposeAggsInner(aggs, TRUE, gen, TRUE)

\* (mutant) the requests are issued as they were decomposed.
UniqueKept(s) == s

\* list(dict.fromkeys(aggs).keys()): order-preserving unique
Unique(s) ==
    LET first == {i \in DOMAIN s : \A j \in 1..(i - 1) : s[j] # s[i]}
        at == AscendingSeq(first)
    IN  [p \in DOMAIN at |-> s[at[p]]]

\* A schema: a mapping from names to dtypes that keeps the order of
\* insertion, here the sequence of its (name, dtype) items built from the
\* named expressions es.
SchemaOf(es) ==
    LET first == {i \in DOMAIN es : \A j \in 1..(i - 1) : es[j].name # es[i].name}
        last(i) == CHOOSE j \in DOMAIN es :
                      /\ es[j].name = es[i].name
                      /\ \A h \in DOMAIN es : es[h].name = es[i].name => h <= j
        at == AscendingSeq(first)
    IN  [p \in DOMAIN at |-> <<es[at[p]].name, es[last(at[p])].value.dtype>>]

\* ------------------------------------------------------------- inputs
Leaves == {ColExpr("INT32", "a"), ColExpr("FLOAT64", "x"), LenExpr, LiteralExpr("INT32", "1")}

\* The right operands of a binary operation.
Operands == {LiteralExpr("INT32", "1"), ColExpr("INT32", "a"),
             AggExpr("INT32", "sum", <<>>, <<ColExpr("INT32", "a")>>)}

\* The expressions built on c.
Over(c) ==
    {AggExpr(c.dtype, "sum", <<>>, <<c>>),
     AggExpr(c.dtype, "min", <<>>, <<c>>),
     AggExpr(c.dtype, "min", <<"propagate_nans">>, <<c>>),
     AggExpr(c.dtype, "quantile", <<>>, <<c, LiteralExpr("FLOAT64", "0.5")>>),
     UnaryFunction(c.dtype, "abs", <<c>>),
     Ternary(c.dtype, LiteralExpr("BOOL", "true"), c, LiteralExpr("INT32", "1")),
     GroupedRollingWindow(c.dtype, c)}
    \cup {BinOp(c.dtype, c, o) : o \in Operands}

RECURSIVE ExprsOfDepth(_)
ExprsOfDepth(d) ==
    IF d = 0 THEN Leaves
    ELSE Leaves \cup UNION {Over(c) : c \in ExprsOfDepth(d - 1)}

\* The named expressions of the calls with several aggregations.
Pool ==
    {NamedExpr(n, v) :
        n \in {"o1", "o2"},
        v \in {ColExpr("INT32", "a"), LenExpr, LiteralExpr("INT32", "1"),
               AggExpr("FLOAT64", "sum", <<>>, <<ColExpr("FLOAT64", "x")>>),
               UnaryFunction("INT32", "abs",
                  <<AggExpr("INT32", "sum", <<>>, <<ColExpr("INT32", "a")>>)>>)}}

\* apply_pre_evaluation(output_schema, inp, keys, original_aggs, name_generator)
\* with one key k: one aggregation of any shape, or several from the pool.
InitAggs ==
    /\ EvalIdle
    /\ BroadcastIdle
    /\ \E original_aggs \in {<<NamedExpr("o1", v)>> : v \in ExprsOfDepth(MaxDepth)}
                            \cup UNION {[1..n -> Pool] : n \in 0..MaxAggs} :
          fargs = [fn |-> "apply_pre_evaluation",
                   keys |-> <<NamedExpr("k", ColExpr("INT32", "k"))>>,
                   original_aggs |-> original_aggs,
                   output_schema |-> SchemaOf(<<NamedExpr("k", ColExpr("INT32", "k"))>>
                                              \o original_aggs),
                   name_generator |-> 0]
    /\ fres = [pc |-> "start"]

\* -------------------------------------------------------------- steps
\* aggs, post = decompose_aggs(original_aggs, name_generator) returns
DecomposeAggsReturn ==
    /\ fargs.fn = "apply_pre_evaluation"
    /\ fres.pc = "start"
    /\ LET r == DecomposeAggs(fargs.original_aggs, fargs.name_generator)
       IN  /\ r.ok
           /\ fres' = [pc |-> "decomposed", new_aggs |-> r.aggs, post |-> r.post]
    /\ UNCHANGED fargs
    /\ UNCHANGED <<evalVars, bcastVars>>

\* decompose_aggs raises: so does apply_pre_evaluation
DecomposeAggsRaise ==
    /\ fargs.fn = "apply_pre_evaluation"
    /\ fres.pc = "start"
    /\ LET r == DecomposeAggs(fargs.original_aggs, fargs.name_generator)
       IN  /\ ~r.ok
           /\ fres' = [pc |-> "raised", err |-> r.err]
    /\ UNCHANGED fargs
    /\ UNCHANGED <<evalVars, bcastVars>>

\* if any(not isinstance(e.value, expr.Col) for e in post): the
\* post-processing is a Select of the keys and the post-aggregations
ApplySelect ==
    /\ fargs.fn = "apply_pre_evaluation"
    /\ fres.pc = "decomposed"
    /\ \E i \in DOMAIN fres.post : fres.post[i].value.kind # "Col"
    /\ LET aggs == Unique(fres.new_aggs)
           selection == [k \in DOMAIN fargs.keys |->
                            NamedReconstruct(fargs.keys[k],
                               ColExpr(fargs.keys[k].value.dtype, fargs.keys[k].name))]
                        \o fres.post
       IN  fres' = [pc |-> "returned", new_aggs |-> fres.new_aggs, post |-> fres.post,
                    aggs |-> aggs, schema |-> SchemaOf(fargs.keys \o aggs),
                    post_process |-> [select |-> TRUE, selection |-> selection,
                                      schema |-> fargs.output_schema]]
    /\ UNCHANGED fargs
    /\ UNCHANGED <<evalVars, bcastVars>>

\* else: return inp, aggs, output_schema, lambda inp: inp
ApplyIdentity ==
    /\ fargs.fn = "apply_pre_evaluation"
    /\ fres.pc = "decomposed"
    /\ \A i \in DOMAIN fres.post : fres.post[i].value.kind = "Col"
    /\ fres' = [pc |-> "returned", new_aggs |-> fres.new_aggs, post |-> fres.post,
                aggs |-> Unique(fres.new_aggs), schema |-> fargs.output_schema,
                post_process |-> [select |-> FALSE, selection |-> <<>>,
                                  schema |-> fargs.output_schema]]
    /\ UNCHANGED fargs
    /\ UNCHANGED <<evalVars, bcastVars>>

NextAggs ==
    \/ DecomposeAggsReturn
    \/ DecomposeAggsRaise
    \/ ApplySelect
    \/ ApplyIdentity

SpecAggs == InitAggs /\ [][NextAggs]_vars

\* ------------------------------------------------------- C16 .. C19
\* All the expressions in e, e included.
RECURSIVE Descendants(_)
Descendants(e) == {e} \cup UNION {Descendants(e.children[i]) : i \in DOMAIN e.children}

\* The expressions of e the recursion comes to if nothing stops it: e,
\* the aggregated child of an aggregation, the children of a pointwise
\* function.
RECURSIVE Reached(_)
Reached(e) ==
    {e} \cup
    (CASE e.kind = "Agg" -> Reached(e.children[1])
       [] e.kind \in {"UnaryFunction", "BinOp", "Cast"} ->
            UNION {Reached(e.children[i]) : i \in DOMAIN e.children}
       [] OTHER -> {})

\* An aggregation or a length count below an aggregation's aggregated child.
HasNestedAggregation(e) ==
    \E g \in Descendants(e) :
        /\ g.kind = "Agg"
        /\ \E h \in Descendants(g.children[1]) : h.kind \in {"Agg", "Len"}

HasTernary(e) == \E h \in Reached(e) : h.kind = "Ternary"

HasUnsupported(e) ==
    \E h \in Reached(e) :
        h.kind \notin {"Col", "Len", "Literal", "Agg", "UnaryFunction", "BinOp", "Cast",
                       "Ternary"}

OriginalAggs == fargs.original_aggs
HasDecomposition == fargs.fn = "apply_pre_evaluation" /\ fres.pc \in {"decomposed", "returned"}

\* C16: when one of the aggregation expressions has an aggregation or a
\* length count below an aggregation's aggregated child, a ternary where
\* the recursion comes, or an expression there that is neither a column,
\* a length count, a literal, an aggregation nor pointwise, no
\* decomposition is returned: the call raises NotImplementedError.
C16_Rejects ==
    (/\ fargs.fn = "apply_pre_evaluation"
     /\ \E i \in DOMAIN OriginalAggs :
           \/ HasNestedAggregation(OriginalAggs[i].value)
           \/ HasTernary(OriginalAggs[i].value)
           \/ HasUnsupported(OriginalAggs[i].value))
    => /\ fres.pc \in {"start", "raised"}
       /\ fres.pc = "raised" => fres.err.type = "NotImplementedError"

\* An aggregation of a pointwise function of a pointwise function of an
\* aggregation has been rejected as nested.
C16_Witness ==
    /\ fargs.fn = "apply_pre_evaluation"
    /\ fres.pc = "raised"
    /\ fres.err.msg = "Nested aggs in groupby not supported"
    /\ Len(OriginalAggs) = 1
    /\ LET e == OriginalAggs[1].value
       IN  /\ e.kind = "Agg"
           /\ e.children[1].kind = "UnaryFunction"
           /\ e.children[1].children[1].kind = "BinOp"
           /\ e.children[1].children[1].children[1].kind = "Col"
           /\ e.children[1].children[1].children[2].kind = "Agg"

IsFillNull(e) == e.kind = "UnaryFunction" /\ e.name = "fill_null"
IsSum(e) == e.kind = "Agg" /\ e.name = "sum"

\* e is the column of the name, or a cast of it.
RefersTo(e, name) ==
    \/ e.kind = "Col" /\ e.name = name
    \/ e.kind = "Cast" /\ e.children[1].kind = "Col" /\ e.children[1].name = name

\* C17: in a decomposition, the post-aggregation expression of an
\* aggregation expression that is a sum is fill_null(the sum's column, 0);
\* the post-aggregation expression of any other has no fill_null in it,
\* and every sum requested is referred to by its name.
C17_FillNullAtTopOnly ==
    HasDecomposition =>
        /\ \A i \in DOMAIN OriginalAggs :
              LET o == OriginalAggs[i].value
                  p == fres.post[i].value
              IN  IF IsSum(o)
                  THEN /\ IsFillNull(p)
                       /\ RefersTo(p.children[1], OriginalAggs[i].name)
                       /\ p.children[2].kind = "Literal" /\ p.children[2].options = <<"0">>
                  ELSE \A h \in Descendants(p) : ~IsFillNull(h)
        /\ \A r \in DOMAIN fres.new_aggs :
              IsSum(fres.new_aggs[r].value) =>
                 \E i \in DOMAIN fres.post : \E h \in Descendants(fres.post[i].value) :
                    RefersTo(h, fres.new_aggs[r].name)

\* A decomposition of a sum and of a pointwise function of a sum.
C17_Witness ==
    /\ HasDecomposition
    /\ Len(OriginalAggs) >= 2
    /\ IsSum(OriginalAggs[1].value)
    /\ OriginalAggs[2].value.kind = "UnaryFunction"
    /\ IsSum(OriginalAggs[2].value.children[1])
    /\ OriginalAggs[1].name # OriginalAggs[2].name

ApplyReturned == fargs.fn = "apply_pre_evaluation" /\ fres.pc = "returned"

FirstIndex(s, x) == CHOOSE i \in DOMAIN s : s[i] = x /\ \A j \in 1..(i - 1) : s[j] # x

\* C18: apply_pre_evaluation returns the decomposed requests without
\* duplicates, in the order of their first occurrence; its post-processing
\* is a Select of the keys and the post-aggregations exactly when a
\* post-aggregation is not a bare column, and otherwise leaves the node
\* as it is, with the output schema.
C18_UniqueRequestsAndSelect ==
    ApplyReturned =>
        /\ \A p \in DOMAIN fres.aggs : \A q \in DOMAIN fres.aggs :
              p # q => fres.aggs[p] # fres.aggs[q]
        /\ Range(fres.aggs) = Range(fres.new_aggs)
        /\ \A p \in DOMAIN fres.aggs : \A q \in DOMAIN fres.aggs :
              p < q => FirstIndex(fres.new_aggs, fres.aggs[p])
                          < FirstIndex(fres.new_aggs, fres.aggs[q])
        /\ fres.post_process.select <=>
              (\E i \in DOMAIN fres.post : fres.post[i].value.kind # "Col")
        /\ fres.post_process.select =>
              /\ Len(fres.post_process.selection) = Len(fargs.keys) + Len(OriginalAggs)
              /\ \A i \in DOMAIN fres.post :
                    fres.post_process.selection[Len(fargs.keys) + i] = fres.post[i]
        /\ ~fres.post_process.select => fres.schema = fargs.output_schema

\* A call has returned fewer requests than were decomposed, and more than one.
C18_Witness ==
    /\ ApplyReturned
    /\ Len(fres.aggs) < Len(fres.new_aggs)
    /\ Len(fres.aggs) >= 2
    /\ fres.post_process.select

IsSimple(e) == e.kind \in {"Col", "Len", "Literal"}

\* C19: a decomposition has one post-aggregation expression per
\* aggregation expression, in the order and with the names of the input;
\* a column and a length count are each their own single request, a
\* literal gives none.
C19_OnePostPerAggregation ==
    HasDecomposition =>
        /\ Len(fres.post) = Len(OriginalAggs)
        /\ \A i \in DOMAIN OriginalAggs : fres.post[i].name = OriginalAggs[i].name
        /\ \A i \in DOMAIN OriginalAggs :
              LET o == OriginalAggs[i].value
              IN  /\ o.kind \in {"Col", "Literal"} => fres.post[i] = OriginalAggs[i]
                  /\ o.kind = "Len" =>
                        fres.post[i].value.kind = "Col"
                        /\ fres.post[i].value.name = OriginalAggs[i].name
        /\ (\A i \in DOMAIN OriginalAggs : IsSimple(OriginalAggs[i].value)) =>
              fres.new_aggs = SelectSeq(OriginalAggs, LAMBDA ne : ne.value.kind \in {"Col", "Len"})

\* A decomposition of a column, a literal and a length count.
C19_Witness ==
    /\ HasDecomposition
    /\ Len(OriginalAggs) = 3
    /\ OriginalAggs[1].value.kind = "Col"
    /\ OriginalAggs[2].value.kind = "Literal"
    /\ OriginalAggs[3].value.kind = "Len"
    /\ Len(fres.new_aggs) = 2

\* ==================================================================
\* get_hashable of Scan and of IR
\* ==================================================================
\* Largest number of keys in an options dictionary.
MaxOptions == 2

\* A dictionary (a schema, reader_options, cloud_options) is the sequence
\* of its (key, value) items in insertion order; its keys are distinct.
\* cloud_options = None
NoOptions == <<<<"None", "None">>>>

RECURSIVE JsonItems(_)
JsonItems(d) ==
    IF d = <<>> THEN ""
    ELSE "\"" \o Head(d)[1] \o "\": " \o Head(d)[2]
         \o (IF Tail(d) = <<>> THEN "" ELSE ", " \o JsonItems(Tail(d)))

\* json.dumps(obj): the items of a dictionary in insertion order
JsonDumps(d) == IF d = NoOptions THEN "null" ELSE "{" \o JsonItems(d) \o "}"

\* tuple(self.schema.items())
SchemaHash(schema) == schema

\* Scan.get_hashable(self)
ScanGetHashable(node) ==
    <<node.type, SchemaHash(node.schema), node.typ, JsonDumps(node.reader_options),
      JsonDumps(node.cloud_options), node.config_options, node.paths, node.with_columns,
      node.skip_rows, node.n_rows, node.row_index, node.include_file_paths,
      node.predicate>>

\* IR.get_hashable(self): args are the constructor arguments after the schema
IRGetHashable(node) == <<node.type, SchemaHash(node.schema), node.args>>

\* ------------------------------------------------------------- inputs
OptionKeys == <<"has_header", "low_memory", "n_threads", "rechunk">>

\* The dictionaries over the first n option keys, in every insertion order.
Dicts(n) ==
    UNION {{[i \in DOMAIN ks |-> <<OptionKeys[ks[i]], IF ks[i] = 1 THEN v ELSE "1">>] :
               ks \in Orders(S), v \in {"true", "false"}} : S \in SUBSET (1..n)}

Schemas ==
    {<<<<"a", "INT32">>, <<"b", "FLOAT64">>>>, <<<<"b", "FLOAT64">>, <<"a", "INT32">>>>,
     <<<<"a", "INT32">>>>}

ScanNodes ==
    {[type |-> "Scan", schema |-> s, typ |-> "csv", reader_options |-> ro,
      cloud_options |-> co, config_options |-> "config", paths |-> <<"f.csv">>,
      with_columns |-> "None", skip_rows |-> 0, n_rows |-> -1, row_index |-> "None",
      include_file_paths |-> "None", predicate |-> "None", args |-> <<>>] :
        s \in Schemas, ro \in Dicts(MaxOptions),
        co \in {NoOptions} \cup {d \in Dicts(MaxOptions) : Len(d) = MaxOptions}}

\* Nodes of a class that keeps IR.get_hashable: Slice(schema, offset, length, df)
SliceNodes ==
    {[type |-> "Slice", schema |-> s, args |-> <<offset, 1, "df">>] :
        s \in Schemas, offset \in 0..MaxOptions}

InitHash ==
    /\ EvalIdle
    /\ BroadcastIdle
    /\ \E S \in {ScanNodes, SliceNodes} : \E a \in S : \E b \in S :
          fargs = [fn |-> "get_hashable", nodes |-> <<a, b>>]
    /\ fres = [pc |-> "start", hashables |-> <<>>]

\* -------------------------------------------------------------- steps
\* The next of the nodes is a Scan: Scan.get_hashable
ScanHashable ==
    /\ fargs.fn = "get_hashable"
    /\ Len(fres.hashables) < Len(fargs.nodes)
    /\ LET node == fargs.nodes[Len(fres.hashables) + 1]
       IN  /\ node.type = "Scan"
           /\ fres' = [pc |-> IF Len(fres.hashables) + 1 = Len(fargs.nodes)
                              THEN "done" ELSE "start",
                       hashables |-> Append(fres.hashables, ScanGetHashable(node))]
    /\ UNCHANGED fargs
    /\ UNCHANGED <<evalVars, bcastVars>>

\* The next of the nodes is of a class without a get_hashable of its own
IRHashable ==
    /\ fargs.fn = "get_hashable"
    /\ Len(fres.hashables) < Len(fargs.nodes)
    /\ LET node == fargs.nodes[Len(fres.hashables) + 1]
       IN  /\ node.type # "Scan"
           /\ fres' = [pc |-> IF Len(fres.hashables) + 1 = Len(fargs.nodes)
                              THEN "done" ELSE "start",
                       hashables |-> Append(fres.hashables, IRGetHashable(node))]
    /\ UNCHANGED fargs
    /\ UNCHANGED <<evalVars, bcastVars>>

NextHash ==
    \/ ScanHashable
    \/ IRHashable

SpecHash == InitHash /\ [][NextHash]_vars

\* ------------------------------------------------------------ C20
\* Two dictionaries are equal when they hold the same items, in whatever
\* order of insertion. The two nodes have the same parameters: the same fields, the schema
\* with its order, the option dictionaries as dictionaries.
DictEqual(d1, d2) == Range(d1) = Range(d2)

SameParameters(a, b) ==
    /\ a.type = "Scan" /\ b.type = "Scan"
    /\ a.schema = b.schema
    /\ DictEqual(a.reader_options, b.reader_options)
    /\ DictEqual(a.cloud_options, b.cloud_options)
    /\ [a EXCEPT !.reader_options = <<>>, !.cloud_options = <<>>]
          = [b EXCEPT !.reader_options = <<>>, !.cloud_options = <<>>]

\* C20: two Scan nodes with the same parameters, their option
\* dictionaries holding the same keys and values whatever the order of
\* insertion, have equal hashable representations; and two nodes that
\* differ only in the order of the schema's columns have different ones.
C20_HashableOfEqualNodes ==
    (fargs.fn = "get_hashable" /\ fres.pc = "done") =>
        LET a == fargs.nodes[1]
            b == fargs.nodes[2]
        IN  /\ SameParameters(a, b) => fres.hashables[1] = fres.hashables[2]
            /\ (/\ a.schema # b.schema
                /\ [a EXCEPT !.schema = <<>>] = [b EXCEPT !.schema = <<>>])
               => fres.hashables[1] # fres.hashables[2]

\* ==================================================================
\* Timer records and the cache mapping across one evaluation
\* ==================================================================
\* The returns of calls of evaluate on nodes other than Cache, in the
\* order they happened.
IsOwnReturn(e) == e.ev = "ret" /\ plan[e.node].kind # "Cache"
OwnReturns(t) == SelectSeq(log[t], IsOwnReturn)

\* --------------------------------------------------------------- C26
\* C26: with a timer supplied, the records stored are, one for one and in
\* order, the returns of the calls of evaluate on nodes other than Cache,
\* each with the class name of its node; the intervals are proper and
\* disjoint, each after the one stored before it, so that the record of a
\* child lies wholly before the record of its parent; no record carries
\* the name Cache, and a visit that hits stores none (it makes no call).
\* Without a timer nothing is stored.  A call that raises stores none.
C26_TimerRecords ==
    \A t \in Threads :
        LET R == timer.records
            own == OwnReturns(t)
        IN  IF timer.on
            THEN /\ Len(R) = Len(own)
                 /\ \A i \in DOMAIN R :
                       /\ R[i].name = plan[own[i].node].kind
                       /\ R[i].name # "Cache"
                       /\ R[i].start < R[i].end
                       /\ i > 1 => R[i - 1].end < R[i].start
            ELSE R = <<>>

C26_Witness ==
    /\ timer.on
    /\ Completed
    /\ \E c \in CacheNodes : Hits(c) >= 1 /\ Misses(c) = 1 /\ Calls(Child(c)) = 1
    /\ Len(timer.records) >= 3
    /\ Len(timer.records) = Len(OwnReturns(1))
    /\ Len(timer.records) < Cardinality({i \in DOMAIN log[1] : log[1][i].ev = "ret"})

\* --------------------------------------------------------------- C29
\* The positions in a log of the visits (hits and misses) of a Cache node.
VisitsOf(L, c) == {i \in DOMAIN L : L[i].node = c /\ L[i].ev \in {"hit", "miss"}}

\* C29: for a Cache node of refcount R >= 1, a stored entry of its key has
\* a hit count h with 0 <= h < R; between two misses of the key there are
\* at least R other visits (at most one miss in R + 1 consecutive visits);
\* the visit after a miss and R hits is a miss again; and a miss calls the
\* child's evaluate as its next step.
C29_HitCountBelowRefcount ==
    \A c \in CacheNodes :
        plan[c].refcount >= 1 =>
            /\ plan[c].key \in DOMAIN cache
                  => cache[plan[c].key].hits \in 0..(plan[c].refcount - 1)
            /\ \A t \in Threads :
                  LET L == log[t]
                      V == VisitsOf(L, c)
                      R == plan[c].refcount
                  IN  /\ \A i \in V : \A j \in V :
                            (i < j /\ L[i].ev = "miss" /\ L[j].ev = "miss")
                            => Cardinality({k \in V : i < k /\ k < j}) >= R
                      /\ \A m \in (R + 2)..Cardinality(V) :
                            (/\ L[Nth(V, m - R - 1)].ev = "miss"
                             /\ \A d \in 1..R : L[Nth(V, m - d)].ev = "hit")
                            => L[Nth(V, m)].ev = "miss"
                      /\ \A i \in V :
                            (L[i].ev = "miss" /\ i < Len(L))
                            => L[i + 1].ev = "call" /\ L[i + 1].node = Child(c)

C29_Witness ==
    /\ Completed
    /\ \E c \in CacheNodes :
          /\ plan[c].refcount = 1
          /\ Misses(c) = 2
          /\ Hits(c) = 1
          /\ Calls(Child(c)) = 2
          /\ plan[c].key \in DOMAIN cache
          /\ cache[plan[c].key].hits = 0

\* --------------------------------------------------------------- C30
RECURSIVE NodesUnder(_)
NodesUnder(n) ==
    {n} \cup UNION {NodesUnder(plan[n].children[i]) : i \in DOMAIN plan[n].children}

\* The keys of the Cache nodes inside the subtree a Cache node wraps.
SubtreeKeys(c) ==
    {plan[n].key : n \in {m \in NodesUnder(Child(c)) : plan[m].kind = "Cache"}}

\* The frames of Cache.evaluate that missed and whose child's evaluation
\* has raised: the exception is on its way out.
FailedMisses(t) ==
    IF raising[t] = NoError THEN {}
    ELSE {i \in DOMAIN stack[t] :
            plan[stack[t][i].node].kind = "Cache" /\ stack[t][i].pc = "store"}

\* C30 as stated: when the child's evaluation fails during a miss of
\* Cache(K, R), the mapping is exactly as it was before the visit.
C30_MappingAsBefore ==
    \A t \in Threads : \A i \in FailedMisses(t) : cache = stack[t][i].before

\* C30 amended: when the child's evaluation fails during a miss of
\* Cache(K, R), the error leaves Cache.evaluate (every frame the exception
\* leaves is followed by its caller's, and the top-level call ends in the
\* error), no entry for K is stored, and the entry of every key other than
\* those of the Cache nodes inside the wrapped subtree is as it was before
\* the visit.
C30_NoEntryForFailedMiss ==
    \A t \in Threads :
        /\ \A i \in FailedMisses(t) :
              LET f == stack[t][i]
                  K == plan[f.node].key
                  same == (DOMAIN cache \cup DOMAIN f.before) \ SubtreeKeys(f.node)
              IN  /\ K \notin DOMAIN cache
                  /\ \A k \in same :
                        /\ k \in DOMAIN cache /\ k \in DOMAIN f.before
                        /\ cache[k] = f.before[k]
        /\ \A i \in DOMAIN log[t] :
              (log[t][i].ev = "unwind" /\ i < Len(log[t]))
              => /\ log[t][i + 1].ev = "unwind"
                 /\ log[t][i + 1].depth = log[t][i].depth - 1
        /\ (Finished /\ \E i \in DOMAIN log[t] : log[t][i].ev = "raise")
              => outcome[t].status = "error"

C30_Witness ==
    /\ raising[1] # NoError
    /\ Len(stack[1]) > 0
    /\ Len(stack[1]) \in FailedMisses(1)
    /\ Top(1).before # cache
    /\ plan[Top(1).node].key \notin DOMAIN cache

\* --------------------------------------------------------------- C27
\* The column names an expression refers to.
ColumnsOf(e) == {h.name : h \in {g \in Descendants(e) : g.kind = "Col"}}

\* C27: when apply_pre_evaluation returns with a Select as post-processing,
\* every column name a post-aggregation expression refers to is the output
\* name of one of the aggregation requests returned, so that the Select
\* can be evaluated on the output of the group-by (the keys and the
\* requests).
C27_PostRefersToRequests ==
    (ApplyReturned /\ fres.post_process.select) =>
        \A i \in DOMAIN fres.post :
            ColumnsOf(fres.post[i].value)
               \subseteq {fres.aggs[r].name : r \in DOMAIN fres.aggs}

\* ==================================================================
\* Cache.is_equal
\* ==================================================================
\* (mutant) the receiver keeps its children.
CacheIsEqualKept(self, other) ==
    [result |-> self.key = other.key /\ self.refcount = other.refcount, self |-> self]

\* Cache.is_equal(self, other): what it returns and the receiver after
\* the call.
CacheIsEqual(self, other) ==
    IF self.key = other.key /\ self.refcount = other.refcount
    THEN [result |-> TRUE, self |-> [self EXCEPT !.children = other.children]]
    ELSE [result |-> FALSE, self |-> self]

\* Cache(schema, key, refcount, value): value is the identity of the
\* child node.
CachesOver(values) ==
    {[schema |-> s, key |-> k, refcount |-> r, children |-> <<v>>] :
        s \in Schemas, k \in 1..2, r \in 1..MaxRefcount, v \in values}

InitIsEqual ==
    /\ EvalIdle
    /\ BroadcastIdle
    /\ \E self \in CachesOver({Leaf(1), Leaf(2)}) :
       \E other \in CachesOver({Leaf(1), Leaf(2)}) :
          fargs = [fn |-> "is_equal", self |-> self, other |-> other]
    /\ fres = [pc |-> "start"]

\* self.is_equal(other) returns True
IsEqualTrue ==
    /\ fargs.fn = "is_equal"
    /\ fres.pc = "start"
    /\ LET r == CacheIsEqual(fargs.self, fargs.other)
       IN  /\ r.result
           /\ fres' = [pc |-> "done", result |-> TRUE, self |-> r.self,
                       other |-> fargs.other]
    /\ UNCHANGED fargs
    /\ UNCHANGED <<evalVars, bcastVars>>

\* self.is_equal(other) returns False
IsEqualFalse ==
    /\ fargs.fn = "is_equal"
    /\ fres.pc = "start"
    /\ LET r == CacheIsEqual(fargs.self, fargs.other)
       IN  /\ ~r.result
           /\ fres' = [pc |-> "done", result |-> FALSE, self |-> r.self,
                       other |-> fargs.other]
    /\ UNCHANGED fargs
    /\ UNCHANGED <<evalVars, bcastVars>>

NextIsEqual ==
    \/ IsEqualTrue
    \/ IsEqualFalse

SpecIsEqual == InitIsEqual /\ [][NextIsEqual]_vars

\* --------------------------------------------------------------- C21
\* C21: Cache.is_equal(other) returns true exactly when key and refcount
\* are both equal, whatever the schemas and the children; when it returns
\* true the receiver's children are the other node's children (the two
\* nodes share one child) and nothing else of either node has changed;
\* when it returns false the receiver is unchanged.
C21_IsEqualMergesChildren ==
    (fargs.fn = "is_equal" /\ fres.pc = "done") =>
        /\ fres.result = (/\ fargs.self.key = fargs.other.key
                          /\ fargs.self.refcount = fargs.other.refcount)
        /\ fres.other = fargs.other
        /\ fres.result => /\ fres.self.children = fargs.other.children
                          /\ fres.self = [fargs.self EXCEPT !.children = fres.self.children]
        /\ ~fres.result => fres.self = fargs.self

C21_Witness ==
    /\ fargs.fn = "is_equal"
    /\ fres.pc = "done"
    /\ fres.result
    /\ fargs.self.schema # fargs.other.schema
    /\ fargs.self.children # fargs.other.children
    /\ fres.self.children = fres.other.children
    /\ fres.self.schema = fargs.self.schema

\* ==================================================================
\* Select.do_evaluate
\* ==================================================================
\* df.column_map[name]: the columns of a frame keyed by name (of columns
\* of one name, the last counts); a name the frame has not raises KeyError.
HasColumn(df, name) == \E i \in DOMAIN df : df[i].name = name
ColumnMap(df, name) ==
    df[CHOOSE i \in DOMAIN df :
          df[i].name = name /\ \A j \in DOMAIN df : df[j].name = name => j <= i]

\* NamedExpr.evaluate(df): the value's column under the expression's name.
\* A column reference gives the frame's column, a literal a column of
\* length one.
NamedEvaluate(ne, df) ==
    IF ne.value.kind = "Col"
    THEN [ColumnMap(df, ne.value.name) EXCEPT !.name = ne.name]
    ELSE Col(ne.name, ne.value.options, FALSE)

\* (mutant) the columns come out in reverse.
SelectDoEvaluateReversed(exprs, should_broadcast, df) ==
    IF \E i \in DOMAIN exprs :
          exprs[i].value.kind = "Col" /\ ~HasColumn(df, exprs[i].value.name)
    THEN Raised("KeyError", "column")
    ELSE LET columns == [i \in DOMAIN exprs |->
                            NamedEvaluate(exprs[Len(exprs) + 1 - i], df)]
         IN  IF should_broadcast
             THEN broadcast(columns, NoTarget)
             ELSE Returned(columns)

\* Select.do_evaluate(exprs, should_broadcast, df)
SelectDoEvaluate(exprs, should_broadcast, df) ==
    IF \E i \in DOMAIN exprs :
          exprs[i].value.kind = "Col" /\ ~HasColumn(df, exprs[i].value.name)
    THEN Raised("KeyError", "column")
    ELSE LET columns == [i \in DOMAIN exprs |-> NamedEvaluate(exprs[i], df)]
         IN  IF should_broadcast
             THEN broadcast(columns, NoTarget)
             ELSE Returned(columns)

\* The expressions of a Select: references to columns (the frame may not
\* have them) under their own name or under another, and a literal.
SelectExprs ==
    UNION {{NamedExpr(ColNames[i], ColExpr("INT32", ColNames[i])),
            NamedExpr("z", ColExpr("INT32", ColNames[i]))} : i \in 1..MaxCols}
    \cup {NamedExpr("lit", LiteralExpr("INT32", 7))}

\* The list of bare references to all the columns of df, in table order.
OwnColumns(df) == [i \in DOMAIN df |-> NamedExpr(df[i].name, ColExpr("INT32", df[i].name))]

InitSelect ==
    /\ EvalIdle
    /\ BroadcastIdle
    /\ \E n \in 0..MaxCols : \E len \in 0..MaxLen :
       \E m \in 0..n : \E exprs \in [1..m -> SelectExprs] :
       \E own \in BOOLEAN : \E should_broadcast \in BOOLEAN :
          LET df == [i \in 1..n |-> InputCol(i, len)]
          IN  fargs = [fn |-> "Select.do_evaluate",
                       exprs |-> IF own THEN OwnColumns(df) ELSE exprs,
                       should_broadcast |-> should_broadcast, df |-> df]
    /\ fres = [pc |-> "start"]

\* Select.do_evaluate returns DataFrame(columns)
SelectReturn ==
    /\ fargs.fn = "Select.do_evaluate"
    /\ fres.pc = "start"
    /\ LET r == SelectDoEvaluate(fargs.exprs, fargs.should_broadcast, fargs.df)
       IN  /\ r.ok
           /\ fres' = [pc |-> "returned", df |-> r.cols]
    /\ UNCHANGED fargs
    /\ UNCHANGED <<evalVars, bcastVars>>

\* Select.do_evaluate raises
SelectRaise ==
    /\ fargs.fn = "Select.do_evaluate"
    /\ fres.pc = "start"
    /\ LET r == SelectDoEvaluate(fargs.exprs, fargs.should_broadcast, fargs.df)
       IN  /\ ~r.ok
           /\ fres' = [pc |-> "raised", err |-> r.err]
    /\ UNCHANGED fargs
    /\ UNCHANGED <<evalVars, bcastVars>>

NextSelect ==
    \/ SelectReturn
    \/ SelectRaise

SpecSelect == InitSelect /\ [][NextSelect]_vars

\* --------------------------------------------------------------- C25
\* C25: Select with should_broadcast = False over the list of bare
\* references to all the columns of its child table, in table order,
\* returns, and the table it returns has the child's columns: the same
\* names in the same order, with the same lengths and values.
C25_SelectOwnColumns ==
    (/\ fargs.fn = "Select.do_evaluate"
     /\ ~fargs.should_broadcast
     /\ fargs.exprs = OwnColumns(fargs.df))
    => /\ fres.pc \in {"start", "returned"}
       /\ fres.pc = "returned" =>
             /\ Len(fres.df) = Len(fargs.df)
             /\ \A i \in DOMAIN fargs.df :
                   /\ fres.df[i].name = fargs.df[i].name
                   /\ Len(fres.df[i].data) = Len(fargs.df[i].data)
                   /\ fres.df[i].data = fargs.df[i].data

C25_Witness ==
    /\ fargs.fn = "Select.do_evaluate"
    /\ ~fargs.should_broadcast
    /\ Len(fargs.df) = MaxCols
    /\ Len(fargs.df[1].data) = 1
    /\ fargs.exprs = OwnColumns(fargs.df)
    /\ fres.pc = "returned"
    /\ fres.df = fargs.df

\* ==================================================================
\* Scan: construction and do_evaluate, called directly
\* ==================================================================
\* Largest number of files of a Scan, and of rows in one file.
MaxFiles == 2
MaxFileRows == 2

\* ------------------------------------------------------- the sources
\* A path: where it points to and its name.  str(p) of an https path
\* starts with "https:/".
Path(scheme, name) == [scheme |-> scheme, name |-> name]
PathStr(p) == IF p.scheme = "https" THEN "https://" \o p.name ELSE p.name
PathNames == <<"f1", "f2", "f3", "f4">>

\* The file system: per path (by position) the rows of the file.  A row
\* is the value of its one data column x; row r of file f holds 10 f + r.
SourceRows(f, n) == [r \in 1..n |-> [file |-> f, x |-> 10 * f + r]]
AllRows(files) == Concat(files)
Xs(rows) == [i \in DOMAIN rows |-> rows[i].x]

\* The predicate of the scans: x is odd.
PredicateHolds(pred, row) == pred = "None" \/ row.x % 2 = 1

\* to_parquet_filter(predicate.value) applied by the reader
ReaderFilter(rows, filters) == SelectSeq(rows, LAMBDA r : PredicateHolds(filters, r))

\* Rows skip+1 .. skip+n of rows; all from skip+1 on when n = -1.
Window(rows, skip, n) ==
    SubSeq(rows, skip + 1, IF n = -1 THEN Len(rows) ELSE Min2(Len(rows), skip + n))

\* What a reader reports with the table of one read: per source file, how
\* many rows of that table it contributed.
NumRowsPerSource(rows, nfiles) ==
    [f \in 1..nfiles |-> Cardinality({i \in DOMAIN rows : rows[i].file = f})]

\* plc.filling.repeat(table, counts): row i of the table counts[i] times.
RECURSIVE Repeat(_, _)
Repeat(values, counts) ==
    IF values = <<>> \/ counts = <<>> THEN <<>>
    ELSE [i \in 1..Head(counts) |-> Head(values)] \o Repeat(Tail(values), Tail(counts))

\* DataFrame.select(names): the named columns in that order
DfSelect(df, names) == [i \in DOMAIN names |-> ColumnMap(df, names[i])]

\* A frame whose columns differ in length has no table view: the
\* operations that need one raise.
WellFormed(df) == \A i \in DOMAIN df : \A j \in DOMAIN df : Size(df[i]) = Size(df[j])

\* DataFrame.filter(mask)
DfFilter(df, mask) ==
    [c \in DOMAIN df |-> [df[c] EXCEPT !.data = FilterRows(df[c].data, mask)]]

\* ------------------------------------------------------- construction
NoRowIndex == [name |-> "None", offset |-> 0, first |-> TRUE]

\* (mutant) nothing is rejected at construction.
ScanUnsupportedNever(node) == ""

\* Scan.__init__: the message of the NotImplementedError it raises, ""
\* when it returns.
ScanUnsupported(node) ==
    LET ro == node.reader_options
    IN  IF node.typ \notin {"csv", "parquet", "ndjson"} THEN "Unhandled scan type"
        ELSE IF node.typ = "ndjson" /\ (node.n_rows # -1 \/ node.skip_rows # 0)
        THEN "row limit in scan for json reader"
        ELSE IF node.skip_rows < 0 THEN "slice pushdown for negative slices"
        ELSE IF node.lt128 /\ node.typ = "csv" /\ node.skip_rows # 0
        THEN "skipping rows in CSV reader"
        ELSE IF node.cloud_options = "aws" THEN "Read from cloud storage"
        ELSE IF \E i \in DOMAIN node.paths : node.paths[i].scheme = "https"
        THEN "Read from https"
        ELSE IF node.typ = "csv"
        THEN IF ro.skip_rows_after_header # 0
             THEN "Skipping rows after header in CSV reader"
             ELSE IF ro.null_values = "Named"
             THEN "Per column null value specification not supported for CSV reader"
             ELSE IF ro.comment_prefix = "Multi"
             THEN "Multi-character comment prefix not supported for CSV reader"
             ELSE IF ~ro.has_header THEN "Reading CSV without header"
             ELSE ""
        ELSE IF node.typ = "ndjson"
        THEN IF ro.ignore_errors
             THEN "ignore_errors is not supported in the JSON reader"
             ELSE IF node.include_file_paths # "None"
             THEN "Including file paths in a json scan."
             ELSE ""
        ELSE IF /\ node.typ = "parquet"
                /\ node.row_index # NoRowIndex
                /\ node.with_columns = "empty"
        THEN "Reading only parquet metadata to produce row index."
        ELSE ""

\* ------------------------------------------------------------- inputs
DefaultOptions ==
    [has_header |-> TRUE, null_values |-> "None", comment_prefix |-> "None",
     skip_rows_after_header |-> 0, ignore_errors |-> FALSE]

ScanCall(typ, chunked, files, skip_rows, n_rows, row_index, include_file_paths, predicate) ==
    [fn |-> "Scan", typ |-> typ, reader_options |-> DefaultOptions,
     cloud_options |-> "None", chunked |-> chunked, lt128 |-> FALSE,
     paths |-> [f \in DOMAIN files |-> Path("file", PathNames[f])],
     files |-> files, with_columns |-> "None", skip_rows |-> skip_rows,
     n_rows |-> n_rows, row_index |-> row_index,
     include_file_paths |-> include_file_paths, predicate |-> predicate]

FileSets == UNION {{[f \in 1..k |-> SourceRows(f, lens[f])] : lens \in [1..k -> 0..MaxFileRows]} :
                      k \in 1..MaxFiles}

RowIndexes ==
    {NoRowIndex, [name |-> "idx", offset |-> 0, first |-> TRUE],
     [name |-> "idx", offset |-> 5, first |-> FALSE]}

\* The scans evaluated: every reader over every set of files.
DataCalls ==
    {ScanCall(m[1], m[2], files, s, n, ri, ifp, pred) :
        m \in {<<"csv", FALSE>>, <<"parquet", FALSE>>, <<"parquet", TRUE>>,
               <<"ndjson", FALSE>>},
        files \in FileSets, s \in 0..MaxFileRows, n \in -1..MaxFileRows,
        ri \in RowIndexes, ifp \in {"None", "path"}, pred \in {"None", "odd"}}

\* The configurations handed to the constructor, over one set of files.
CsvOptions ==
    {[has_header |-> h, null_values |-> nv, comment_prefix |-> cp,
      skip_rows_after_header |-> sra, ignore_errors |-> FALSE] :
        h \in BOOLEAN, nv \in {"None", "AllColumnsSingle", "Named"},
        cp \in {"None", "Single", "Multi"}, sra \in {0, 1}}

ConfigCalls ==
    LET base(typ) == ScanCall(typ, FALSE, <<SourceRows(1, 1), SourceRows(2, 1)>>,
                              0, -1, NoRowIndex, "None", "None")
        common(typ) ==
            {[base(typ) EXCEPT !.skip_rows = s, !.n_rows = n, !.cloud_options = co,
                               !.paths[2].scheme = sch, !.include_file_paths = ifp,
                               !.row_index = ri] :
                s \in {-1, 0, 1}, n \in {-1, 1}, co \in {"None", "empty", "aws"},
                sch \in {"file", "https"}, ifp \in {"None", "path"},
                ri \in {NoRowIndex, [name |-> "idx", offset |-> 0, first |-> TRUE]}}
    IN  {[c EXCEPT !.reader_options = ro, !.lt128 = v] :
            c \in common("csv"), ro \in CsvOptions, v \in BOOLEAN}
        \cup {[c EXCEPT !.reader_options.ignore_errors = ie] :
                 c \in common("ndjson"), ie \in BOOLEAN}
        \cup {[c EXCEPT !.with_columns = wc] :
                 c \in common("parquet"), wc \in {"None", "empty", "x"}}
        \cup common("ipc")

InitScan ==
    /\ EvalIdle
    /\ BroadcastIdle
    /\ fargs \in DataCalls \cup ConfigCalls
    /\ fres = [pc |-> "new"]

\* -------------------------------------------------------- do_evaluate
\* schema: the names of the columns in order.
ScanSchema(node) ==
    (IF node.row_index # NoRowIndex /\ node.row_index.first
     THEN <<node.row_index.name>> ELSE <<>>)
    \o (IF node.with_columns = "empty" THEN <<>> ELSE <<"x">>)
    \o (IF node.row_index # NoRowIndex /\ ~node.row_index.first
        THEN <<node.row_index.name>> ELSE <<>>)
    \o (IF node.include_file_paths # "None" THEN <<node.include_file_paths>> ELSE <<>>)

\* DataFrame.from_table(tbl, names) of the rows read
FrameOf(node, rows) ==
    IF node.with_columns = "empty" THEN <<>> ELSE <<Col("x", Xs(rows), FALSE)>>

\* Scan.add_file_paths(name, paths, rows_per_path, df)
AddFilePaths(name, paths, rows_per_path, df) ==
    WithColumns(df, <<Col(name, Repeat([i \in DOMAIN paths |-> PathStr(paths[i])],
                                       rows_per_path), FALSE)>>)

\* The csv branch: the loop over the paths gives the tables read, one per
\* path until the row limit is used up.
RECURSIVE CsvPieces(_, _, _, _)
CsvPieces(files, n_rows, skiprows, read_partial) ==
    IF files = <<>> THEN <<>>
    ELSE LET tbl == Window(Head(files), skiprows, n_rows)
             left == IF read_partial THEN n_rows - Len(tbl) ELSE n_rows
         IN  <<tbl>> \o (IF read_partial /\ left <= 0 THEN <<>>
                         ELSE CsvPieces(Tail(files), left, skiprows, read_partial))

ReadCsv(node) ==
    LET skiprows == IF node.lt128 THEN 0 ELSE node.skip_rows
        tables == CsvPieces(node.files, node.n_rows, skiprows, node.n_rows # -1)
        seen_paths == SubSeq(node.paths, 1, Len(tables))
        df == FrameOf(node, Concat(tables))
    IN  IF node.include_file_paths # "None"
        THEN AddFilePaths(node.include_file_paths, seen_paths,
                          [i \in DOMAIN tables |-> Len(tables[i])], df)
        ELSE df

\* filters of the parquet branch: the predicate, unless there is a row index
Filters(node) ==
    IF node.predicate # "None" /\ node.row_index = NoRowIndex
    THEN node.predicate ELSE "None"

\* The parquet branch without chunks: plc.io.parquet.read_parquet(options)
ReadParquet(node) ==
    LET rows == ReaderFilter(Window(AllRows(node.files), node.skip_rows, node.n_rows),
                             Filters(node))
        df == FrameOf(node, rows)
    IN  IF node.include_file_paths # "None"
        THEN AddFilePaths(node.include_file_paths, node.paths,
                          NumRowsPerSource(rows, Len(node.files)), df)
        ELSE df

\* nrows = n_rows + skip_rows; options.set_num_rows(nrows) if nrows > -1:
\* the row limit the chunked reader is given, -1 when it is given none.
ChunkedNumRows(n_rows, skip_rows) ==
    IF n_rows + skip_rows > -1 THEN n_rows + skip_rows ELSE -1

\* The rows the chunked reader hands out, chunk after chunk.
ChunkedStream(node) ==
    ReaderFilter(Window(AllRows(node.files), 0,
                        ChunkedNumRows(node.n_rows, node.skip_rows)),
                 Filters(node))

\* slice_skip(tbl): the table without the rows still to skip, and the
\* number of rows left to skip after it.
SliceSkip(tbl, rows_left_to_skip) ==
    LET chunk_skip == IF rows_left_to_skip > 0
                      THEN Min2(rows_left_to_skip, Len(tbl)) ELSE 0
    IN  [tbl |-> SubSeq(tbl, chunk_skip + 1, Len(tbl)),
         rows_left_to_skip |-> rows_left_to_skip - chunk_skip]

\* if row_index is not None: offset += skip_rows
\* (mutant) the offset is used as given.
RowIndexOffsetKept(offset, skip_rows) == offset

RowIndexOffset(offset, skip_rows) == offset + skip_rows

\* The row index column in front of the frame's columns, the columns then
\* put in schema order when the index is not the schema's first.
AttachRowIndex(node, df) ==
    LET num_rows == IF df = <<>> THEN 0 ELSE Size(df[1])
        init == RowIndexOffset(node.row_index.offset, node.skip_rows)
        index_col == Col(node.row_index.name, [i \in 1..num_rows |-> init + i - 1], TRUE)
        with == <<index_col>> \o df
    IN  IF ScanSchema(node)[1] # node.row_index.name
        THEN DfSelect(with, ScanSchema(node))
        ELSE with

\* predicate.evaluate(df): the mask column
PredicateMask(df) ==
    LET x == ColumnMap(df, "x").data
    IN  Col("mask", [i \in DOMAIN x |-> x[i] % 2 = 1], FALSE)

ColumnSizeMismatch == [type |-> "RuntimeError", msg |-> "Column size mismatch"]

\* -------------------------------------------------------------- steps
\* Scan(...) raises NotImplementedError
ScanInitRaise ==
    /\ fargs.fn = "Scan"
    /\ fres.pc = "new"
    /\ ScanUnsupported(fargs) # ""
    /\ fres' = [pc |-> "raised", stage |-> "init",
                err |-> [type |-> "NotImplementedError", msg |-> ScanUnsupported(fargs)]]
    /\ UNCHANGED fargs
    /\ UNCHANGED <<evalVars, bcastVars>>

\* Scan(...) returns the node
ScanInit ==
    /\ fargs.fn = "Scan"
    /\ fres.pc = "new"
    /\ ScanUnsupported(fargs) = ""
    /\ fres' = [pc |-> "constructed"]
    /\ UNCHANGED fargs
    /\ UNCHANGED <<evalVars, bcastVars>>

\* do_evaluate, typ == "csv"
ScanReadCsv ==
    /\ fargs.fn = "Scan"
    /\ fres.pc = "constructed"
    /\ fargs.typ = "csv"
    /\ fres' = [pc |-> "read", df |-> ReadCsv(fargs), asked |-> fargs.n_rows]
    /\ UNCHANGED fargs
    /\ UNCHANGED <<evalVars, bcastVars>>

\* do_evaluate, typ == "parquet", not chunked; with filters the frame read
\* is returned at once
ScanReadParquet ==
    /\ fargs.fn = "Scan"
    /\ fres.pc = "constructed"
    /\ fargs.typ = "parquet"
    /\ ~fargs.chunked
    /\ LET df == ReadParquet(fargs)
       IN  fres' = IF Filters(fargs) # "None"
                   THEN [pc |-> "returned", table |-> df, df |-> df, pushed |-> TRUE,
                         asked |-> fargs.n_rows]
                   ELSE [pc |-> "read", df |-> df, asked |-> fargs.n_rows]
    /\ UNCHANGED fargs
    /\ UNCHANGED <<evalVars, bcastVars>>

\* do_evaluate, typ == "parquet", chunked: the reader is built and the
\* first chunk read, of a size of the reader's choosing
ScanChunkedFirst ==
    /\ fargs.fn = "Scan"
    /\ fres.pc = "constructed"
    /\ fargs.typ = "parquet"
    /\ fargs.chunked
    /\ \E size \in 1..MaxFileRows :
          LET chunk == Window(ChunkedStream(fargs), 0, size)
              s == SliceSkip(chunk, fargs.skip_rows)
          IN  fres' = [pc |-> "chunking", pos |-> Len(chunk), chunk |-> chunk,
                       rows_left_to_skip |-> s.rows_left_to_skip,
                       concatenated |-> s.tbl,
                       asked |-> ChunkedNumRows(fargs.n_rows, fargs.skip_rows)]
    /\ UNCHANGED fargs
    /\ UNCHANGED <<evalVars, bcastVars>>

\* while reader.has_next(): the next chunk is read, sliced and appended
ScanChunkedNext ==
    /\ fargs.fn = "Scan"
    /\ fres.pc = "chunking"
    /\ fres.pos < Len(ChunkedStream(fargs))
    /\ \E size \in 1..MaxFileRows :
          LET chunk == Window(ChunkedStream(fargs), fres.pos, size)
              s == SliceSkip(chunk, fres.rows_left_to_skip)
          IN  fres' = [fres EXCEPT !.pos = @ + Len(chunk), !.chunk = chunk,
                                   !.rows_left_to_skip = s.rows_left_to_skip,
                                   !.concatenated = @ \o s.tbl]
    /\ UNCHANGED fargs
    /\ UNCHANGED <<evalVars, bcastVars>>

\* The reader has no chunk left: the frame of the concatenated columns,
\* with the file paths repeated by the last chunk's rows per source
ScanChunkedDone ==
    /\ fargs.fn = "Scan"
    /\ fres.pc = "chunking"
    /\ fres.pos >= Len(ChunkedStream(fargs))
    /\ LET df0 == FrameOf(fargs, fres.concatenated)
           df == IF fargs.include_file_paths # "None"
                 THEN AddFilePaths(fargs.include_file_paths, fargs.paths,
                                   NumRowsPerSource(fres.chunk, Len(fargs.files)), df0)
                 ELSE df0
       IN  fres' = IF Filters(fargs) # "None"
                   THEN [pc |-> "returned", table |-> df, df |-> df, pushed |-> TRUE,
                         asked |-> fres.asked]
                   ELSE [pc |-> "read", df |-> df, asked |-> fres.asked]
    /\ UNCHANGED fargs
    /\ UNCHANGED <<evalVars, bcastVars>>

\* do_evaluate, typ == "ndjson"
ScanReadNdjson ==
    /\ fargs.fn = "Scan"
    /\ fres.pc = "constructed"
    /\ fargs.typ = "ndjson"
    /\ fres' = [pc |-> "read",
                df |-> DfSelect(FrameOf(fargs, AllRows(fargs.files)), <<"x">>),
                asked |-> -1]
    /\ UNCHANGED fargs
    /\ UNCHANGED <<evalVars, bcastVars>>

\* if row_index is not None: the index column is attached
ScanRowIndex ==
    /\ fargs.fn = "Scan"
    /\ fres.pc = "read"
    /\ fres' = IF fargs.row_index = NoRowIndex
               THEN [pc |-> "indexed", table |-> fres.df, asked |-> fres.asked]
               ELSE IF ~WellFormed(fres.df)
               THEN [pc |-> "raised", stage |-> "evaluate", err |-> ColumnSizeMismatch]
               ELSE [pc |-> "indexed", table |-> AttachRowIndex(fargs, fres.df),
                     asked |-> fres.asked]
    /\ UNCHANGED fargs
    /\ UNCHANGED <<evalVars, bcastVars>>

\* return df, or df.filter(mask) when there is a predicate
ScanReturn ==
    /\ fargs.fn = "Scan"
    /\ fres.pc = "indexed"
    /\ fres' = IF fargs.predicate = "None"
               THEN [pc |-> "returned", table |-> fres.table, df |-> fres.table,
                     pushed |-> FALSE, asked |-> fres.asked]
               ELSE IF ~WellFormed(fres.table)
               THEN [pc |-> "raised", stage |-> "evaluate", err |-> ColumnSizeMismatch]
               ELSE LET b == broadcast(<<PredicateMask(fres.table)>>,
                                       IF fres.table = <<>> THEN 0
                                       ELSE Size(fres.table[1]))
                    IN  IF b.ok
                        THEN [pc |-> "returned", table |-> fres.table,
                              df |-> DfFilter(fres.table, b.cols[1].data),
                              pushed |-> FALSE, asked |-> fres.asked]
                        ELSE [pc |-> "raised", stage |-> "evaluate", err |-> b.err]
    /\ UNCHANGED fargs
    /\ UNCHANGED <<evalVars, bcastVars>>

NextScan ==
    \/ ScanInitRaise
    \/ ScanInit
    \/ ScanReadCsv
    \/ ScanReadParquet
    \/ ScanChunkedFirst
    \/ ScanChunkedNext
    \/ ScanChunkedDone
    \/ ScanReadNdjson
    \/ ScanRowIndex
    \/ ScanReturn

SpecScan == InitScan /\ [][NextScan]_vars

\* ------------------------------------------------------- C22 .. C28
ScanCalled == fargs.fn = "Scan"
\* The table of the scan before the predicate is applied, once read.
HasTable == ScanCalled /\ fres.pc \in {"read", "indexed", "returned"}
PreFilter == IF fres.pc = "read" THEN fres.df ELSE fres.table
\* The scan failed inside do_evaluate.
EvaluateRaised == ScanCalled /\ fres.pc = "raised" /\ fres.stage = "evaluate"
\* The file a row came from, by its value.
FileOf(x) == x \div 10

\* --------------------------------------------------------------- C22
\* C22: when a Scan includes the file-path column and the predicate is not
\* applied by the reader, do_evaluate does not fail, and the path column
\* of the table before filtering has one entry per row, the entry of a
\* row being the path of the file the row came from (so each path occurs
\* as often as rows came from its file, in file order); for csv, for
\* parquet and for chunked parquet whatever the chunks and skip_rows.
C22_PathPerRow ==
    (/\ ScanCalled
     /\ fargs.include_file_paths # "None"
     /\ Filters(fargs) = "None"
     /\ fargs.with_columns # "empty")
    => /\ ~EvaluateRaised
       /\ HasTable =>
             LET x == ColumnMap(PreFilter, "x").data
                 p == ColumnMap(PreFilter, fargs.include_file_paths).data
             IN  /\ Len(p) = Len(x)
                 /\ \A i \in DOMAIN x : i \in DOMAIN p /\ p[i] = PathNames[FileOf(x[i])]

\* --------------------------------------------------------------- C23
\* C23: when a Scan has a row index (name, offset), the index column of
\* the table before filtering is offset + skip_rows, offset + skip_rows +
\* 1, ..., one value per row read; the predicate is not applied by the
\* reader but after the index is attached, so the index values returned
\* are strictly increasing and every row returned has the index it had
\* before filtering, the rows returned being those the predicate holds of.
C23_RowIndex ==
    (/\ ScanCalled
     /\ fargs.row_index # NoRowIndex
     /\ fres.pc \in {"indexed", "returned"})
    => LET name == fargs.row_index.name
           idx == ColumnMap(fres.table, name).data
           n == IF HasColumn(fres.table, "x")
                THEN Len(ColumnMap(fres.table, "x").data) ELSE Len(idx)
       IN  /\ idx = [i \in 1..n |-> fargs.row_index.offset + fargs.skip_rows + i - 1]
           /\ ColumnNames(fres.table) = ScanSchema(fargs)
           /\ fres.pc = "returned" =>
                 LET x == ColumnMap(fres.table, "x").data
                     ridx == ColumnMap(fres.df, name).data
                     rx == ColumnMap(fres.df, "x").data
                     kept == {i \in DOMAIN x :
                                 PredicateHolds(fargs.predicate, [file |-> 0, x |-> x[i]])}
                 IN  /\ ~fres.pushed
                     /\ Len(ridx) = Len(rx)
                     /\ \A j \in DOMAIN ridx : j > 1 => ridx[j - 1] < ridx[j]
                     /\ Len(rx) = Cardinality(kept)
                     /\ \A j \in DOMAIN rx :
                           \E i \in kept : idx[i] = ridx[j] /\ x[i] = rx[j]

\* A parquet scan with a row index, a skip and a predicate has returned:
\* rows were read that the predicate does not hold of, and the rows
\* returned kept their index.
C23_Witness ==
    /\ ScanCalled
    /\ fargs.typ = "parquet"
    /\ fargs.row_index # NoRowIndex
    /\ fargs.row_index.offset > 0
    /\ fargs.skip_rows = 1
    /\ fargs.predicate # "None"
    /\ fres.pc = "returned"
    /\ ~fres.pushed
    /\ Len(ColumnMap(fres.table, "x").data) >= 2
    /\ Len(ColumnMap(fres.df, "x").data) < Len(ColumnMap(fres.table, "x").data)
    /\ Len(ColumnMap(fres.df, "x").data) >= 1
    /\ ColumnMap(fres.df, "idx").data[1] > fargs.row_index.offset + fargs.skip_rows

\* --------------------------------------------------------------- C24
\* The configurations the claim lists.
ListedUnsupported(node) ==
    \/ node.typ \notin {"csv", "parquet", "ndjson"}
    \/ node.typ = "ndjson" /\ (node.n_rows # -1 \/ node.skip_rows # 0)
    \/ node.skip_rows < 0
    \/ node.cloud_options = "aws"
    \/ \E i \in DOMAIN node.paths : node.paths[i].scheme = "https"
    \/ /\ node.typ = "csv"
       /\ \/ ~node.reader_options.has_header
          \/ node.reader_options.null_values = "Named"
          \/ node.reader_options.comment_prefix = "Multi"
          \/ node.reader_options.skip_rows_after_header # 0
    \/ /\ node.typ = "ndjson"
       /\ node.reader_options.ignore_errors \/ node.include_file_paths # "None"
    \/ /\ node.typ = "parquet"
       /\ node.row_index # NoRowIndex
       /\ node.with_columns = "empty"

\* C24: a Scan of an unsupported configuration (unknown file type, ndjson
\* with a row limit or a skip, negative skip_rows, cloud storage, https
\* path, csv without header, with per-column null values, with a
\* multi-character comment prefix or skipping rows after the header,
\* ndjson with ignore_errors or a file-path column, parquet row index
\* with an empty projection) is rejected by the constructor with
\* NotImplementedError, so that no evaluation runs; and do_evaluate of a
\* Scan that was constructed raises no NotImplementedError.
C24_RejectedAtConstruction ==
    ScanCalled =>
        /\ ListedUnsupported(fargs) =>
              /\ fres.pc \in {"new", "raised"}
              /\ fres.pc = "raised" =>
                    fres.stage = "init" /\ fres.err.type = "NotImplementedError"
        /\ EvaluateRaised => fres.err.type # "NotImplementedError"

C24_Witness ==
    /\ ScanCalled
    /\ fargs.typ = "parquet"
    /\ fargs.row_index # NoRowIndex
    /\ fargs.with_columns = "empty"
    /\ fargs.skip_rows = 0
    /\ fargs.cloud_options = "empty"
    /\ \A i \in DOMAIN fargs.paths : fargs.paths[i].scheme = "file"
    /\ fres.pc = "raised"
    /\ fres.stage = "init"
    /\ fres.err.msg = "Reading only parquet metadata to produce row index."

\* --------------------------------------------------------------- C28
\* C28: for a chunked parquet Scan with skip_rows = s >= 0 and row limit n
\* (-1: none) whose predicate is not applied by the reader, whatever the
\* chunks, the rows before filtering are the source rows s, s + 1, ...,
\* s + n - 1 (all from s on when n = -1), the reader having been asked
\* for n + s rows only when there is a limit; they are the rows of the
\* reader without chunks for the same s and n.
C28_ChunkedSkipLimit ==
    (/\ HasTable
     /\ fargs.typ = "parquet"
     /\ fargs.chunked
     /\ Filters(fargs) = "None"
     /\ fargs.with_columns # "empty")
    => LET x == ColumnMap(PreFilter, "x").data
       IN  /\ x = Xs(Window(AllRows(fargs.files), fargs.skip_rows, fargs.n_rows))
           /\ fres.asked = (IF fargs.n_rows # -1
                            THEN fargs.n_rows + fargs.skip_rows ELSE -1)
           /\ x = ColumnMap(ReadParquet([fargs EXCEPT !.chunked = FALSE,
                                                      !.include_file_paths = "None"]),
                            "x").data

====
